---- MODULE Spec2Model ----
(***************************************************************************)
(* Audit orchestration pipeline of secops_inventory: the cron ticker       *)
(* (celery_worker.schedule_ticker) with the schedule endpoints of main.py, *)
(* and the audit run (audit_logic.run_audit_logic) over the paginated      *)
(* fetch (chronicle_api.make_api_request) wrapped by                       *)
(* utils.retry_with_backoff.                                               *)
(*                                                                         *)
(* Time is counted in whole seconds from an epoch that is ten minutes past *)
(* a full hour (hh:10:00 UTC).                                             *)
(***************************************************************************)
EXTENDS Integers, Sequences, FiniteSets, TLC

\* ------------------------------------------------------------------------
\* Scheduler: bounds and inputs
\* ------------------------------------------------------------------------

\* Minutes of clock time the scheduler runs are followed for.
MaxMinute == 1

\* Seconds within a minute at which the clock is read.
Offsets == {0, 1, 2, 31}

Instants == {60 * m + r : m \in 0..MaxMinute, r \in Offsets}

ScheduleIds == {1, 2}

\* Cron expressions, as the period and phase (seconds from the epoch) of
\* their occurrences: "* * * * *", "0 * * * *" and "6 * * * *"; BadCron is a
\* string croniter rejects (the endpoints store any string).
EveryMinute == [period |-> 60, phase |-> 0]
HourlyAt0 == [period |-> 3600, phase |-> -600]
HourlyAt6 == [period |-> 3600, phase |-> -240]
BadCron == [period |-> 0, phase |-> 0]
CronSet == {EveryMinute, HourlyAt0, HourlyAt6, BadCron}

\* croniter(expr, t) raises on an expression it cannot parse.
croniter_raises(cron) == cron.period = 0

\* The catch-up window of a schedule that never ran, in seconds.
CatchUpWindow == 300

\* Schedule.last_run_at of a schedule that never ran (NULL).
NoRun == <<>>

VARIABLES
    now,          \* the clock value most recently read by an operation
    schedules,    \* Schedule rows: id -> [cron_schedule, is_enabled, last_run_at]
    enqueued,     \* the run_scheduled_job.delay calls of the last operation, each with
                  \* the last_run_at the caller found (the ticker prints it)
    lastDispatched, \* history: per schedule, <<occurrence>> of the ticker's last dispatch
    redispatched  \* history: <<id, occurrence>> the ticker dispatched although it had
                  \* already dispatched that occurrence or a later one

VARIABLES
    job,              \* run_scheduled_job: the audit names still to run, in order
    audits,           \* the Audit table, in insertion order
    pc,               \* where the worker is: "idle", "auth" (make_api_request
                      \* entered), "request" (about to send a page request),
                      \* "generate" (about to call generate_content), "sleep"
    fn,               \* the function retry_with_backoff wraps in the current call
    x,                \* wrapper: the retry counter
    cfg,              \* make_api_request: the pagination settings of audit_details
    authed_session,   \* make_api_request: TRUE once the session is authenticated
    page_count,       \* make_api_request: loop counter
    next_page_token,  \* make_api_request: TRUE when a page token is held
    all_results,      \* make_api_request: the accumulator
    lastF,            \* what the wrapped function returned or raised at its last call
    observed,         \* what the caller of the wrapper got back
    attempts,         \* history: calls of the wrapped function in the current call
    sleeps,           \* history: time.sleep calls of the wrapper in the current call
    kinds,            \* history: exception classes the wrapper has slept on
    requests,         \* history: HTTP requests sent in the current attempt
    totalRequests,    \* history: HTTP requests sent in the current call
    served            \* history: items under the results key of the pages fetched
                      \* in the current attempt

VARIABLES
    auditTable,       \* the Audit table as a set of rows with id, tenant, name,
                      \* status and run_timestamp
    lastRead          \* what the last reader of the table selected

VARIABLES
    json_str1,        \* the two JSON documents handed to generate_json_diff
    json_str2,
    diff_output       \* what generate_json_diff returned

VARIABLES
    data_string,           \* the text handed to chunk_data_by_tokens
    max_tokens_per_chunk,  \* its budget
    count_fails,           \* whether model.count_tokens raises
    chunks                 \* the chunks it returned

VARIABLES
    call,             \* the running call of generate_gemini_summary: its data,
                      \* its locals, the requests it issued and its result
    task,             \* the running report task: its loop and its content
    reports           \* the Report rows written

VARIABLES
    tickers,          \* the running instances of schedule_ticker: where each
                      \* is in its loop, its now and the rows it loaded
    dispatches        \* <<id, occurrence, instance>> of every
                      \* run_scheduled_job.delay of those instances

VARIABLES
    purges            \* the running instances of purge_audits_task: where each
                      \* is, its cutoff and name filter, and its count_to_delete

schedulerVars == <<now, schedules, enqueued, lastDispatched, redispatched>>

wrapperVars == <<fn, x, lastF, observed, attempts, sleeps, kinds>>

fetchVars == <<cfg, authed_session, page_count, next_page_token, all_results,
               requests, totalRequests, served>>

auditVars == <<job, audits, pc, wrapperVars, fetchVars>>

storeVars == <<auditTable, lastRead>>

diffVars == <<json_str1, json_str2, diff_output>>

chunkVars == <<data_string, max_tokens_per_chunk, count_fails, chunks>>

summaryVars == <<call, task, reports>>

tickersVars == <<tickers, dispatches>>

purgesVars == <<purges>>

vars == <<schedulerVars, auditVars, storeVars, diffVars, chunkVars, summaryVars, tickersVars, purgesVars>>

\* What the operations of one component leave alone.
besideScheduler == <<auditVars, storeVars, diffVars, chunkVars, summaryVars, tickersVars, purgesVars>>

besideWorker == <<schedulerVars, storeVars, diffVars, chunkVars, summaryVars, tickersVars, purgesVars>>

besideStore == <<schedulerVars, auditVars, diffVars, chunkVars, summaryVars, tickersVars, purgesVars>>

besideDiff == <<schedulerVars, auditVars, storeVars, chunkVars, summaryVars, tickersVars, purgesVars>>

besideChunk == <<schedulerVars, auditVars, storeVars, diffVars, summaryVars, tickersVars, purgesVars>>

besideSummary == <<schedulerVars, auditVars, storeVars, diffVars, chunkVars, tickersVars, purgesVars>>

besideTickers == <<schedulerVars, auditVars, storeVars, diffVars, chunkVars, summaryVars, purgesVars>>

besidePurges == <<schedulerVars, auditVars, storeVars, diffVars, chunkVars, summaryVars, tickersVars>>

\* What concurrent instances of schedule_ticker leave alone: they share the
\* Schedule rows and the clock.
besideTickerInstances == <<enqueued, lastDispatched, redispatched, auditVars, storeVars, diffVars, chunkVars, summaryVars, purgesVars>>

\* What concurrent instances of purge_audits_task and the audit runs beside
\* them leave alone: they share the Audit table.
besidePurgeInstances == <<schedulerVars, auditVars, diffVars, chunkVars, summaryVars, tickersVars>>


\* datetime.isoformat / datetime.fromisoformat, on the (minute, second) fields.
isoformat(t) == <<t \div 60, t % 60>>

fromisoformat(s) == s[1] * 60 + s[2]

\* croniter(expr, t).get_prev(): the latest occurrence strictly before t.
get_prev(cron, t) == cron.phase + ((t - 1 - cron.phase) \div cron.period) * cron.period

\* Mutant of should_run: the watermark is not consulted.
should_run_no_watermark(s, t) ==
    t - get_prev(s.cron_schedule, t) < CatchUpWindow

\* should_run of schedule_ticker for one schedule row at clock value t.
should_run(s, t) ==
    LET prev_run == get_prev(s.cron_schedule, t) IN
    IF s.last_run_at # NoRun
        THEN prev_run > fromisoformat(s.last_run_at)
        ELSE t - prev_run < CatchUpWindow

\* The rows schedule_ticker loads: filter_by(is_enabled=True).
EnabledIds == {id \in ScheduleIds : schedules[id].is_enabled = 1}

\* The rows the loop of schedule_ticker gets to, in id order: the exception of
\* croniter is not caught inside the loop, so the first row it is raised for
\* ends the task, after the commits made for the rows before it.
EvaluatedIds == {id \in EnabledIds :
    \A j \in EnabledIds : j <= id => ~croniter_raises(schedules[j].cron_schedule)}

\* Mutant of TickedRow: the watermark is not advanced.
TickedRow_stale(s, t) == s

\* The row of a dispatched schedule as the ticker commits it.
TickedRow(s, t) == [s EXCEPT !.last_run_at = isoformat(t)]

DueIds(t) == {id \in EvaluatedIds : should_run(schedules[id], t)}

schedule_ticker(t) ==
    /\ t >= now
    /\ now' = t
    /\ schedules' = [id \in ScheduleIds |->
            IF id \in DueIds(t) THEN TickedRow(schedules[id], t) ELSE schedules[id]]
    /\ enqueued' = {[id |-> id, last_run |-> schedules[id].last_run_at,
                      by |-> "schedule_ticker"] : id \in DueIds(t)}

\* The record of the ticker's dispatches at clock value t, kept beside it.
RecordDispatches(t) ==
    /\ lastDispatched' = [id \in ScheduleIds |->
            IF id \in DueIds(t)
                THEN <<get_prev(schedules[id].cron_schedule, t)>>
                ELSE lastDispatched[id]]
    /\ redispatched' = redispatched \cup
            {<<id, get_prev(schedules[id].cron_schedule, t)>> : id \in
                {i \in DueIds(t) :
                    /\ lastDispatched[i] # <<>>
                    /\ get_prev(schedules[i].cron_schedule, t) <= lastDispatched[i][1]}}

run_schedule_now(id, t) ==
    /\ t >= now
    /\ now' = t
    /\ schedules' = [schedules EXCEPT ![id].last_run_at = isoformat(t)]
    /\ enqueued' = {[id |-> id, last_run |-> schedules[id].last_run_at,
                      by |-> "run_schedule_now"]}

\* Mutant of update_schedule: an edit clears the watermark.
update_schedule_resets(id, cron, enabled) ==
    /\ schedules' = [schedules EXCEPT ![id].cron_schedule = cron,
                                      ![id].is_enabled = enabled,
                                      ![id].last_run_at = NoRun]
    /\ enqueued' = {}
    /\ UNCHANGED now

update_schedule(id, cron, enabled) ==
    /\ schedules' = [schedules EXCEPT ![id].cron_schedule = cron,
                                      ![id].is_enabled = enabled]
    /\ enqueued' = {}
    /\ UNCHANGED now


\* ------------------------------------------------------------------------
\* Audit run: bounds and inputs
\* ------------------------------------------------------------------------

\* Pages the API server holds for one listing: its last page carries no token.
MaxServerPages == 3

\* Items a page holds under the results key, at most.
MaxItems == 1

\* Audit rows followed.
MaxAuditRows == 2

\* retries of the decorator on make_api_request and on _call_gemini_with_retry.
ApiRetries == 3
GeminiRetries == 5

\* The status of a rate-limited response.
TooManyRequests == 429

AuditNames == {"a1", "a2"}

\* Schedule.audits_to_run of the schedule a job runs.
AuditsToRun == {<<"a1">>, <<"a1", "a2">>}

\* max_pages of an audit: 0 stands for NULL and for 0, which the loop does not
\* tell apart (both are falsy); the endpoints store any integer.
MaxPagesValues == {-1, 0, 1, 2}

\* The pagination settings of an audit definition: whether a response token
\* key and a results key are configured, and max_pages.
AuditConfigs == [page_token_key : BOOLEAN, results_key : BOOLEAN,
                 max_pages : MaxPagesValues]

\* The settings held while no audit definition is loaded.
NoConfig == [page_token_key |-> FALSE, results_key |-> FALSE, max_pages |-> 0]

\* Text is a sequence of pieces: each digit is a piece of its own, any other
\* piece is a run of characters without digits.
DigitChars == <<"0", "1", "2", "3", "4", "5", "6", "7", "8", "9">>

\* str() of a natural number.
RECURSIVE str(_)
str(n) == IF n < 10 THEN <<DigitChars[n + 1]>>
                    ELSE str(n \div 10) \o <<DigitChars[(n % 10) + 1]>>

\* "429" in text.
Has429(text) ==
    \E i \in 1..(Len(text) - 2) :
        text[i] = "4" /\ text[i + 1] = "2" /\ text[i + 2] = "9"

\* The "error" member of a JSON page body: none, a rate-limit error, and a
\* bad-request error whose message quotes a number.
NoError == [code |-> 0, message |-> <<>>]
RateLimitError == [code |-> TooManyRequests, message |-> <<"Quota exceeded">>]
BadRequestError == [code |-> 400, message |-> <<"Invalid value ">> \o str(14290)]
PayloadErrors == {RateLimitError, BadRequestError}

\* str() of the "error" member of a page body.
str_error(e) == <<"{'code': ">> \o str(e.code) \o <<", 'message': '">>
                    \o e.message \o <<"'}">>

\* The page token a response may carry: none on the server's last page.
Tokens(p) == IF p >= MaxServerPages THEN {FALSE} ELSE BOOLEAN

Response(kind, status, results_kind, n, token, error) ==
    [kind |-> kind, status |-> status, results_kind |-> results_kind, n |-> n,
     token |-> token, error |-> error]

\* What the server may answer to the request for page p: an HTTP error status,
\* a connection failure, an empty body, a body that is not JSON, or a JSON
\* body whose results member is a list, something else ("scalar") or absent.
Responses(p) ==
    {Response("http_error", s, "absent", 0, FALSE, NoError) :
        s \in {TooManyRequests, 500}}
    \cup {Response(k, 200, "absent", 0, FALSE, NoError) :
        k \in {"network_error", "empty", "text"}}
    \cup {Response("json", 200, "list", n, t, NoError) :
        n \in 0..MaxItems, t \in Tokens(p)}
    \cup {Response("json", 200, k, 0, t, NoError) :
        k \in {"absent", "scalar"}, t \in Tokens(p)}
    \cup {Response("json", 200, "absent", 0, FALSE, e) : e \in PayloadErrors}

\* ------------------------------------------------------------------------
\* Audit run: values returned and raised
\* ------------------------------------------------------------------------

NoOutcome ==
    [kind |-> "none", shape |-> "none", items |-> <<>>, page |-> 0,
     has_error |-> FALSE, error |-> <<>>, details |-> <<>>, exc |-> "none",
     status |-> 0]

\* A returned dict without an "error" member: shape "aggregate" is
\* {results_key: all_results}, "envelope" is {"results": all_results}, "item"
\* is all_results[0], "text" is {"result": response.text}.
Returned(shape, items) ==
    [NoOutcome EXCEPT !.kind = "returned", !.shape = shape, !.items = items]

\* A returned {"error": ..., "details": ...}; empty details stand for a dict
\* without that member. status is the HTTP status behind it, if any.
ErrorDict(error, details, status) ==
    [NoOutcome EXCEPT !.kind = "returned", !.shape = "error", !.has_error = TRUE,
                      !.error = error, !.details = details, !.status = status]

\* The items of page p under the results key.
PageItems(p, n) == [j \in 1..n |-> <<p, j>>]

\* The body of page p, returned as it is.
PageBody(data, p) ==
    [NoOutcome EXCEPT !.kind = "returned", !.shape = "page", !.page = p,
                      !.items = PageItems(p, data.n),
                      !.has_error = (data.error # NoError),
                      !.error = IF data.error # NoError THEN str_error(data.error)
                                                      ELSE <<>>,
                      !.status = data.error.code]

\* A raised exception of class exc with str(e) = text.
Raised(exc, text, status) ==
    [NoOutcome EXCEPT !.kind = "raised", !.exc = exc, !.error = text,
                      !.status = status]

\* ------------------------------------------------------------------------
\* utils.retry_with_backoff
\* ------------------------------------------------------------------------

Retries(f) == IF f = "make_api_request" THEN ApiRetries ELSE GeminiRetries

\* What is in flight after the call of the wrapped function: a returned dict
\* whose "error" member mentions 429 is turned into a raised HTTPError.
InFlight(out) ==
    IF out.kind = "returned" /\ out.has_error /\ Has429(out.error)
        THEN Raised("HTTPError",
                    <<"Status ">> \o str(TooManyRequests) \o <<": ">> \o out.details,
                    out.status)
        ELSE out

\* The exception handlers that go on to sleep unless the retries are used up.
GoesOnToRetry(e) ==
    \/ e.exc \in {"ResourceExhausted", "ServiceUnavailable"}
    \/ e.exc = "HTTPError" /\ Has429(e.error)

\* Mutant of RetriesExhausted: one more retry is allowed.
RetriesExhausted_late(count, retries) == count = retries + 1

RetriesExhausted(count, retries) == count = retries

\* The Audit row and the results column of a failed run.
AuditRow(name, status, results) ==
    [audit_name |-> name, status |-> status, results |-> results]

FailedResults(text) == ErrorDict(text, <<>>, 0)

\* The loop of run_scheduled_job ended by the first exception.
JobAfter_aborting(names, r) == IF r.kind = "raised" THEN <<>> ELSE Tail(names)

\* The audit names left after the run of the first one ended with r:
\* `except Exception` prints and goes on with the next name.
JobAfter(names, r) == Tail(names)

\* run_audit_logic from the point where it holds final_response r, or where r
\* was raised inside its try block, and the loop of run_scheduled_job around
\* it: name is the audit name a Failed row would carry.
run_audit_logic_ends(name, r) ==
    /\ job' = JobAfter(job, r)
    /\ audits' =
        IF r.kind = "raised"
            THEN IF r.exc \in {"ValueError", "KeyError"}
                    THEN Append(audits, AuditRow(name, "Failed", FailedResults(r.error)))
                    ELSE audits
            ELSE IF r.has_error
                    THEN Append(audits, AuditRow(name, "Failed",
                            FailedResults(IF r.details # <<>> THEN r.details
                                                              ELSE r.error)))
                    ELSE Append(audits, AuditRow(name, "Success", r))

\* The wrapper from the point where the wrapped function has returned or
\* raised out, up to its sleep or to the return into its caller.
wrapper(out) ==
    LET e == InFlight(out) IN
    /\ lastF' = out
    /\ attempts' = attempts + 1
    /\ UNCHANGED <<fn, x>>
    /\ IF e.kind = "raised" /\ GoesOnToRetry(e) /\ ~RetriesExhausted(x, Retries(fn))
        THEN /\ pc' = "sleep"
             /\ sleeps' = sleeps + 1
             /\ kinds' = kinds \cup {IF out.kind = "raised" THEN out.exc ELSE "dict"}
             /\ UNCHANGED <<observed, audits, job>>
        ELSE /\ pc' = "idle"
             /\ observed' = e
             /\ UNCHANGED <<sleeps, kinds>>
             /\ IF fn = "make_api_request"
                    THEN run_audit_logic_ends(Head(job), e)
                    ELSE UNCHANGED <<audits, job>>

\* The sleep ends: x += 1 and the wrapped function is called again.
backoff_ends ==
    /\ pc = "sleep"
    /\ x' = x + 1
    /\ pc' = IF fn = "make_api_request" THEN "auth" ELSE "generate"
    /\ UNCHANGED <<fn, lastF, observed, attempts, sleeps, kinds, fetchVars, job, audits>>

\* ------------------------------------------------------------------------
\* chronicle_api.make_api_request
\* ------------------------------------------------------------------------

\* Mutant of CapReached: max_pages is ignored.
CapReached_never(max_pages, count) == FALSE

\* The max_pages test at the top of the loop.
CapReached(max_pages, count) == max_pages # 0 /\ count > max_pages

\* The return after the loop.
LoopResult(c, results) ==
    IF c.results_key THEN Returned("aggregate", results)
    ELSE IF Len(results) = 1 THEN Returned("item", results)
    ELSE Returned("envelope", results)

\* Data aggregation of one JSON page: "extend" the accumulator, "return" the
\* page as it is, or neither.
Aggregation(c, data) ==
    IF c.results_key /\ data.results_kind # "absent"
        THEN IF data.results_kind = "list" THEN "extend" ELSE "return"
        ELSE IF ~c.page_token_key THEN "return" ELSE "skip"

\* Mutant of TokenHandling: a token in the page is followed although no
\* response token key is configured.
TokenHandling_follows(c, data) == IF data.token THEN "continue" ELSE "break"

\* Token handling of one JSON page.
TokenHandling(c, data) ==
    IF c.page_token_key
        THEN IF data.token THEN "continue" ELSE "break"
        ELSE "break"

\* The dict returned for a raised HTTPError, and for any other exception.
HttpErrorDict(status) ==
    ErrorDict(<<"HTTP Error: ">> \o str(status),
              str(status) \o <<" Error for url">>, status)

UnexpectedErrorDict(text) == ErrorDict(<<"An unexpected error occurred">>, text, 0)

\* One pass of the loop from the response to page number count, up to the
\* return of the function (next = "done", with the value out) or to the next
\* request (next = "continue"), with the locals as the pass leaves them.
AfterResponse(c, resp, count, results, token) ==
    LET pass(next, out, res, tok, cnt) ==
            [next |-> next, out |-> out, all_results |-> res,
             next_page_token |-> tok, page_count |-> cnt]
        agg == Aggregation(c, resp)
        res == IF agg = "extend" THEN results \o PageItems(count, resp.n)
                                 ELSE results
        tok == IF c.page_token_key THEN resp.token ELSE token
    IN  CASE resp.kind = "http_error" ->
                pass("done", HttpErrorDict(resp.status), results, token, count)
          [] resp.kind = "network_error" ->
                pass("done", UnexpectedErrorDict(<<"Connection aborted">>),
                     results, token, count)
          [] resp.kind = "empty" ->
                pass("done", LoopResult(c, results), results, token, count)
          [] resp.kind = "text" ->
                pass("done", IF results = <<>> THEN Returned("text", <<>>)
                                               ELSE LoopResult(c, results),
                     results, token, count)
          [] OTHER ->
                IF agg = "return"
                    THEN pass("done", PageBody(resp, count), results, token, count)
                ELSE IF TokenHandling(c, resp) = "break"
                    THEN pass("done", LoopResult(c, res), res, tok, count)
                ELSE IF CapReached(c.max_pages, count + 1)
                    THEN pass("done", LoopResult(c, res), res, tok, count + 1)
                ELSE pass("continue", NoOutcome, res, tok, count + 1)

\* How the authentication logic may go: a session is set up, loading the GCP
\* credentials raises, the API key of the method is not configured, or the
\* method is none of the known ones.
AuthOutcomes == {"ok", "credentials_raise", "key_missing", "unknown_method"}

\* The text of each failure of the authentication logic.
AuthErrorTexts ==
    [credentials_raise |-> <<"service_account_path is missing">>,
     key_missing |-> <<"SOAR API Key is not configured.">>,
     unknown_method |-> <<"Unknown auth method: ", "OAUTH">>]

\* The authentication logic letting its failure escape make_api_request.
AuthError_raising(auth) == Raised("PermissionError", AuthErrorTexts[auth], 0)

\* What make_api_request returns when the authentication logic fails: the
\* error dict of the branch, or the dict of `except Exception` for the
\* exception of get_gcp_credentials.
AuthError(auth) ==
    IF auth = "credentials_raise"
        THEN UnexpectedErrorDict(AuthErrorTexts[auth])
        ELSE ErrorDict(AuthErrorTexts[auth], <<>>, 0)

\* make_api_request from its entry to the first request: the credentials may
\* fail to load (an exception, caught into a dict) or the API key be missing.
\* The accumulator kept from the attempt before.
StartingResults_kept(results) == results

\* all_results = [] at the start of every execution of the function body.
StartingResults(results) == <<>>

make_api_request(auth) ==
    /\ pc = "auth"
    /\ all_results' = StartingResults(all_results)
    /\ next_page_token' = FALSE
    /\ requests' = 0
    /\ served' = 0
    /\ UNCHANGED <<cfg, totalRequests>>
    /\ authed_session' = (auth = "ok")
    /\ page_count' = IF auth = "ok" THEN 1 ELSE 0
    /\ CASE auth # "ok" -> wrapper(AuthError(auth))
         [] OTHER ->
                IF CapReached(cfg.max_pages, 1)
                    THEN wrapper(LoopResult(cfg, <<>>))
                    ELSE /\ pc' = "request"
                         /\ UNCHANGED <<wrapperVars, job, audits>>

\* One request of the loop and what follows it up to the next request or to
\* the end of the call.
request_page(resp) ==
    LET r == AfterResponse(cfg, resp, page_count, all_results, next_page_token) IN
    /\ pc = "request"
    /\ requests' = requests + 1
    /\ totalRequests' = totalRequests + 1
    /\ served' = served + (IF resp.kind = "json" /\ resp.results_kind = "list"
                              THEN resp.n ELSE 0)
    /\ all_results' = r.all_results
    /\ next_page_token' = r.next_page_token
    /\ page_count' = r.page_count
    /\ UNCHANGED <<cfg, authed_session>>
    /\ IF r.next = "done"
        THEN wrapper(r.out)
        ELSE /\ pc' = "request"
             /\ UNCHANGED <<wrapperVars, job, audits>>

\* ------------------------------------------------------------------------
\* audit_logic.run_audit_logic and celery_worker.run_scheduled_job
\* ------------------------------------------------------------------------

\* How the run goes before the fetch: the listing of the audits raises
\* (a database error), the name is not listed, the tenant has no
\* configuration, the audit is a Custom IAM audit (which returns a result or
\* an error dict), or the audit is fetched with make_api_request.
Lookups == {"lookup_raises", "not_found", "tenant_missing", "custom_iam",
            "custom_iam_error", "api"}

\* A run of run_scheduled_job starts with the audit names of its schedule.
run_scheduled_job(names) ==
    /\ pc = "idle"
    /\ job = <<>>
    /\ Len(audits) + Len(names) <= MaxAuditRows
    /\ job' = names
    /\ UNCHANGED <<audits, pc, wrapperVars, fetchVars>>

\* run_audit_logic for the next audit name, up to its end or to the call of
\* make_api_request.
run_audit_logic(lookup, c) ==
    /\ pc = "idle"
    /\ job # <<>>
    /\ CASE lookup = "lookup_raises" ->
                /\ run_audit_logic_ends(Head(job),
                        Raised("OperationalError", <<"database is locked">>, 0))
                /\ UNCHANGED <<pc, wrapperVars, fetchVars>>
         [] lookup = "not_found" ->
                /\ run_audit_logic_ends("Unknown",
                        Raised("ValueError", <<"Audit '", Head(job), "' not found">>, 0))
                /\ UNCHANGED <<pc, wrapperVars, fetchVars>>
         [] lookup = "tenant_missing" ->
                /\ run_audit_logic_ends(Head(job),
                        Raised("ValueError", <<"Tenant is not configured.">>, 0))
                /\ UNCHANGED <<pc, wrapperVars, fetchVars>>
         [] lookup = "custom_iam" ->
                /\ run_audit_logic_ends(Head(job), Returned("page", <<>>))
                /\ UNCHANGED <<pc, wrapperVars, fetchVars>>
         [] lookup = "custom_iam_error" ->
                /\ run_audit_logic_ends(Head(job),
                        ErrorDict(<<"Failed to get IAM policy">>, <<>>, 0))
                /\ UNCHANGED <<pc, wrapperVars, fetchVars>>
         [] OTHER ->
                /\ pc' = "auth"
                /\ fn' = "make_api_request"
                /\ x' = 0
                /\ cfg' = c
                /\ lastF' = NoOutcome
                /\ observed' = NoOutcome
                /\ attempts' = 0
                /\ sleeps' = 0
                /\ kinds' = {}
                /\ authed_session' = FALSE
                /\ page_count' = 0
                /\ next_page_token' = FALSE
                /\ all_results' = <<>>
                /\ requests' = 0
                /\ totalRequests' = 0
                /\ served' = 0
                /\ UNCHANGED <<job, audits>>

\* ------------------------------------------------------------------------
\* utils._call_gemini_with_retry
\* ------------------------------------------------------------------------

\* What model.generate_content may do: return, or raise one of the Google API
\* exceptions or a requests HTTPError.
GeminiOutcomes ==
    {Returned("text", <<>>),
     Raised("ResourceExhausted", str(TooManyRequests) \o <<" Resource exhausted">>,
            TooManyRequests),
     Raised("ServiceUnavailable", str(503) \o <<" Service unavailable">>, 503),
     Raised("HTTPError", str(TooManyRequests) \o <<" Client Error">>, TooManyRequests),
     Raised("HTTPError", str(500) \o <<" Server Error">>, 500),
     Raised("InvalidArgument", str(400) \o <<" Invalid argument">>, 400)}

\* A call of _call_gemini_with_retry starts.
call_gemini_with_retry ==
    /\ pc = "idle"
    /\ job = <<>>
    /\ pc' = "generate"
    /\ fn' = "_call_gemini_with_retry"
    /\ x' = 0
    /\ lastF' = NoOutcome
    /\ observed' = NoOutcome
    /\ attempts' = 0
    /\ sleeps' = 0
    /\ kinds' = {}
    /\ cfg' = NoConfig
    /\ authed_session' = FALSE
    /\ page_count' = 0
    /\ next_page_token' = FALSE
    /\ all_results' = <<>>
    /\ requests' = 0
    /\ totalRequests' = 0
    /\ served' = 0
    /\ UNCHANGED <<job, audits>>

\* One call of the wrapped function and what the wrapper does with it.
generate_content(out) ==
    /\ pc = "generate"
    /\ wrapper(out)
    /\ UNCHANGED fetchVars

\* ------------------------------------------------------------------------
\* The Audit table: rows, inserts, purge and readers
\* ------------------------------------------------------------------------

\* The greatest id a row of the Audit table is followed to, and so the rows
\* the table holds at most.
MaxAuditRecords == 3

\* The clock readings a row's run_timestamp is taken from: 59 to
\* 59 + MaxRunInstant, across a change of the leading field of isoformat().
MaxRunInstant == 1

RunInstants == {59 + s : s \in 0..MaxRunInstant}

Tenants == {"p1", "p2"}

Statuses == {"Success", "Failed"}

\* a < b on two isoformat() strings: the comparison is by characters, which
\* on the fixed-width fields is the comparison field by field.
iso_less(a, b) == a[1] < b[1] \/ (a[1] = b[1] /\ a[2] < b[2])

NoRead == [by |-> "none", tenant |-> "", name |-> "", rows |-> <<>>]

\* INTEGER PRIMARY KEY of SQLite without AUTOINCREMENT: one more than the
\* largest id in the table.
NextId(table) ==
    IF table = {} THEN 1
    ELSE 1 + CHOOSE m \in {r.id : r \in table} : \A r \in table : r.id <= m

\* class Audit, without the columns no query filters or orders by.
AuditRecord(id, tenant, name, status, t) ==
    [id |-> id, tenant_project_id |-> tenant, audit_name |-> name,
     status |-> status, run_timestamp |-> isoformat(t)]

\* db.add(new_audit); db.commit() replacing the row of the same tenant and
\* audit name, which the code does not do.
InsertedTable_replacing(table, row) ==
    {r \in table : ~(r.tenant_project_id = row.tenant_project_id
                     /\ r.audit_name = row.audit_name)}
    \cup {[row EXCEPT !.id = 1 + Cardinality(table)]}

\* db.add(new_audit); db.commit().
InsertedTable(table, row) == table \cup {row}

\* The end of run_audit_logic: a row with the clock reading t taken when the
\* row was constructed is committed. Rows of concurrent workers commit in
\* any order, so t is any reading.
save_audit(tenant, name, status, t) ==
    /\ NextId(auditTable) <= MaxAuditRecords
    /\ auditTable' = InsertedTable(auditTable,
            AuditRecord(NextId(auditTable), tenant, name, status, t))
    /\ lastRead' = NoRead

\* The rows purge_audits_task deletes: those whose run_timestamp is below the
\* cutoff as a string, of every tenant, of one audit name if one is given
\* ("" stands for None).
PurgeQuery(table, cutoff, name) ==
    {r \in table : /\ iso_less(r.run_timestamp, isoformat(cutoff))
                   /\ (name # "" => r.audit_name = name)}

purge_audits_task(cutoff, name) ==
    /\ auditTable' = auditTable \ PurgeQuery(auditTable, cutoff, name)
    /\ lastRead' = NoRead

\* filter_by(tenant_project_id, audit_name, status="Success").
SuccessfulRuns(table, tenant, name) ==
    {r \in table : /\ r.tenant_project_id = tenant
                   /\ r.audit_name = name
                   /\ r.status = "Success"}

\* The orders in which order_by(Audit.run_timestamp.desc()) may return a set
\* of rows: no second key is given, so rows of equal run_timestamp come in
\* any order.
DescendingOrders(rows) ==
    {s \in [1..Cardinality(rows) -> rows] :
        /\ \A i, j \in DOMAIN s : i # j => s[i] # s[j]
        /\ \A i, j \in DOMAIN s :
              i < j => ~iso_less(s[i].run_timestamp, s[j].run_timestamp)}

\* The first n elements of a sequence, or all of it.
Limit(s, n) == SubSeq(s, 1, IF Len(s) < n THEN Len(s) ELSE n)

Read(by, tenant, name, rows) ==
    [by |-> by, tenant |-> tenant, name |-> name, rows |-> rows]

\* .order_by(Audit.run_timestamp.desc()).first() of generate_report_task,
\* generate_insight_report_task, view_audit_result and the other readers of
\* one audit's latest successful run.
latest_successful_run(tenant, name) ==
    /\ \E s \in DescendingOrders(SuccessfulRuns(auditTable, tenant, name)) :
          lastRead' = Read("first", tenant, name, Limit(s, 1))
    /\ UNCHANGED auditTable

\* .order_by(Audit.run_timestamp.desc()).limit(2).all() of
\* generate_combined_diff_report_task: rows[1] is latest_run, rows[2] is
\* previous_run.
latest_two_runs(tenant, name) ==
    /\ \E s \in DescendingOrders(SuccessfulRuns(auditTable, tenant, name)) :
          lastRead' = Read("limit2", tenant, name, Limit(s, 2))
    /\ UNCHANGED auditTable

\* The subquery of get_audits_status: per audit name the Success row of
\* func.max(Audit.id); the row it reports for one audit name.
MaxIdRun(table, tenant, name) ==
    {r \in SuccessfulRuns(table, tenant, name) :
        \A o \in SuccessfulRuns(table, tenant, name) : o.id <= r.id}

get_audits_status(tenant, name) ==
    /\ \E s \in DescendingOrders(MaxIdRun(auditTable, tenant, name)) :
          lastRead' = Read("max_id", tenant, name, s)
    /\ UNCHANGED auditTable

\* ------------------------------------------------------------------------
\* Concurrent instances of purge_audits_task
\* ------------------------------------------------------------------------

\* Instances of the task that may run at the same time.
PurgeInstances == {1, 2}

\* An instance that has not started.
NoPurge == [pc |-> "idle", cutoff |-> 0, name |-> "", count_to_delete |-> 0,
            rowcount |-> 0]

\* count_to_delete = query.count(): a SELECT of its own; with no row found
\* the task returns, else it goes on to the delete.
purge_counts(i, cutoff, name) ==
    LET count == Cardinality(PurgeQuery(auditTable, cutoff, name)) IN
    /\ purges[i].pc = "idle"
    /\ purges' = [purges EXCEPT ![i] =
            [pc |-> IF count = 0 THEN "done" ELSE "delete", cutoff |-> cutoff,
             name |-> name, count_to_delete |-> count, rowcount |-> 0]]
    /\ UNCHANGED <<auditTable, lastRead>>

\* query.delete(synchronize_session=False); db_session.commit(): the DELETE
\* evaluates the filter again, on the table as it is now, and the task
\* reports count_to_delete.
purge_deletes(i) ==
    LET found == PurgeQuery(auditTable, purges[i].cutoff, purges[i].name) IN
    /\ purges[i].pc = "delete"
    /\ auditTable' = auditTable \ found
    /\ lastRead' = NoRead
    /\ purges' = [purges EXCEPT ![i].pc = "done", ![i].rowcount = Cardinality(found)]

\* ------------------------------------------------------------------------
\* generate_json_diff
\* ------------------------------------------------------------------------

\* Members an object of a compared document has at most, in each of its two
\* levels.
MaxMembers == 2

\* The object keys of the documents, in the order of sorted().
KeyOrder == <<"a", "b">>

Keys == {KeyOrder[i] : i \in DOMAIN KeyOrder}

\* A JSON text is the tree of what is written: a number, or an object with
\* its members in the order they are written.
Number(n) == [kind |-> "number", n |-> n, members |-> <<>>]

Object(members) == [kind |-> "object", n |-> 0, members |-> members]

Member(key, value) == [key |-> key, value |-> value]

\* Objects written with up to MaxMembers members of distinct keys and values
\* from a set: Audit.results is written by json.dumps from a dict.
ObjectsOver(values) ==
    {Object(ms) : ms \in
        UNION {{s \in [1..n -> {Member(k, v) : k \in Keys, v \in values}] :
                    \A i, j \in 1..n : i # j => s[i].key # s[j].key} :
               n \in 0..MaxMembers}}

Numbers == {Number(1), Number(2)}

\* The documents compared: objects of numbers and of objects of numbers.
JsonDocuments == ObjectsOver(Numbers \cup ObjectsOver(Numbers))

\* dict.__setitem__ while an object is parsed: a key seen before keeps its
\* place and takes the new value, a new key goes last.
SetItem(d, key, value) ==
    IF \E i \in DOMAIN d : d[i].key = key
        THEN [i \in DOMAIN d |-> IF d[i].key = key THEN Member(key, value) ELSE d[i]]
        ELSE Append(d, Member(key, value))

\* json.loads: numbers to numbers, objects to dicts (members in insertion
\* order).
RECURSIVE json_loads(_)
RECURSIVE LoadMembers(_, _)
LoadMembers(ms, d) ==
    IF ms = <<>> THEN d
    ELSE LoadMembers(Tail(ms), SetItem(d, Head(ms).key, json_loads(Head(ms).value)))

json_loads(text) ==
    IF text.kind = "number" THEN text
    ELSE Object(LoadMembers(text.members, <<>>))

\* items of a dict as json.dumps walks them without sort_keys: insertion
\* order.
Items_unsorted(d) == d

\* sorted(dct.items()): the items by key.
RECURSIVE ItemsByKeys(_, _)
ItemsByKeys(d, keys) ==
    IF keys = <<>> THEN <<>>
    ELSE SelectSeq(d, LAMBDA m : m.key = Head(keys)) \o ItemsByKeys(d, Tail(keys))

Items(d) == ItemsByKeys(d, KeyOrder)

\* A line of json.dumps(indent=2): the indentation level, the key it opens
\* with ("" for none), what follows, and whether a comma ends it.
Line(level, key, token, comma) ==
    [level |-> level, key |-> key, token |-> token, comma |-> comma]

\* json.dumps(value, indent=2, sort_keys=True).splitlines() of a value written
\* at a level, under a key, followed by a comma or not.
RECURSIVE DumpLines(_, _, _, _)
RECURSIVE DumpItems(_, _)
DumpItems(items, level) ==
    IF items = <<>> THEN <<>>
    ELSE DumpLines(Head(items).value, level, Head(items).key, Len(items) > 1)
            \o DumpItems(Tail(items), level)

DumpLines(value, level, key, comma) ==
    IF value.kind = "number" THEN <<Line(level, key, str(value.n), comma)>>
    ELSE IF value.members = <<>> THEN <<Line(level, key, <<"{}">>, comma)>>
    ELSE <<Line(level, key, <<"{">>, FALSE)>>
            \o DumpItems(Items(value.members), level + 1)
            \o <<Line(level, "", <<"}">>, comma)>>

json_dumps(value) == DumpLines(value, 0, "", FALSE)

\* The longest common prefix of two sequences of lines.
RECURSIVE CommonPrefix(_, _)
CommonPrefix(a, b) ==
    IF a = <<>> \/ b = <<>> \/ Head(a) # Head(b) THEN 0
    ELSE 1 + CommonPrefix(Tail(a), Tail(b))

Marked(mark, lines) == [i \in DOMAIN lines |-> <<mark, lines[i]>>]

\* difflib.unified_diff(a, b, fromfile, tofile, lineterm=''): nothing for
\* equal sequences; otherwise the two header lines and the lines of a that
\* go ("-") and of b that come ("+") after what the two start with in common.
unified_diff(a, b) ==
    IF a = b THEN <<>>
    ELSE LET p == CommonPrefix(a, b)
         IN  <<<<"---", "previous_run">>, <<"+++", "latest_run">>>>
                \o Marked("-", SubSeq(a, p + 1, Len(a)))
                \o Marked("+", SubSeq(b, p + 1, Len(b)))

NoDifferences == <<"No differences found between the two audit runs.">>

NotCompared == <<"not compared">>

\* generate_json_diff on two texts that json.loads accepts.
JsonDiff(s1, s2) ==
    LET diff == unified_diff(json_dumps(json_loads(s1)), json_dumps(json_loads(s2)))
    IN  IF diff = <<>> THEN NoDifferences ELSE diff

generate_json_diff ==
    /\ diff_output = NotCompared
    /\ diff_output' = JsonDiff(json_str1, json_str2)
    /\ UNCHANGED <<json_str1, json_str2>>

\* ------------------------------------------------------------------------
\* chunk_data_by_tokens
\* ------------------------------------------------------------------------

\* Characters of the text that is chunked, at most.
MaxChars == 5

\* The greatest budget tried; the least is -1, a prompt larger than the
\* configured chunk size.
MaxBudget == 3

LineBreak == "\n"

Chars == {"a", "b", LineBreak}

Texts == UNION {[1..n -> Chars] : n \in 0..MaxChars}

Budgets == -1..MaxBudget

\* str.splitlines(keepends=False): the lines without their line breaks.
RECURSIVE splitlines_dropping(_, _)
splitlines_dropping(text, line) ==
    IF text = <<>> THEN (IF line = <<>> THEN <<>> ELSE <<line>>)
    ELSE IF Head(text) = LineBreak
        THEN <<line>> \o splitlines_dropping(Tail(text), <<>>)
        ELSE splitlines_dropping(Tail(text), Append(line, Head(text)))

\* str.splitlines(keepends=True): the lines with their line breaks; line is
\* the line read so far.
RECURSIVE splitlines(_, _)
splitlines(text, line) ==
    IF text = <<>> THEN (IF line = <<>> THEN <<>> ELSE <<line>>)
    ELSE IF Head(text) = LineBreak
        THEN <<Append(line, LineBreak)>> \o splitlines(Tail(text), <<>>)
        ELSE splitlines(Tail(text), Append(line, Head(text)))

\* model.count_tokens(line).total_tokens: here every character but a line
\* break is a token.
count_tokens(line) == Len(SelectSeq(line, LAMBDA c : c # LineBreak))

\* line_token_count: the model's count, or len(line) // 4 when counting
\* raises.
LineTokenCount(line, fails) ==
    IF fails THEN Len(line) \div 4 ELSE count_tokens(line)

\* The test that closes the current chunk, without the tokens already in it.
Overflows_line_only(current_token_count, line_token_count, max) ==
    line_token_count > max

\* current_token_count + line_token_count > max_tokens_per_chunk.
Overflows(current_token_count, line_token_count, max) ==
    current_token_count + line_token_count > max

\* "".join(lines).
RECURSIVE Join(_)
Join(lines) == IF lines = <<>> THEN <<>> ELSE Head(lines) \o Join(Tail(lines))

\* The for loop and what follows it: the chunks so far, the lines of the
\* current chunk and its token count.
RECURSIVE ChunkLoop(_, _, _, _, _, _)
ChunkLoop(lines, done, current_chunk_lines, current_token_count, max, fails) ==
    IF lines = <<>>
        THEN IF current_chunk_lines # <<>>
                THEN Append(done, Join(current_chunk_lines))
                ELSE done
    ELSE LET line == Head(lines)
             line_token_count == LineTokenCount(line, fails)
         IN  IF Overflows(current_token_count, line_token_count, max)
                THEN ChunkLoop(Tail(lines),
                        IF current_chunk_lines # <<>>
                            THEN Append(done, Join(current_chunk_lines))
                            ELSE done,
                        <<line>>, line_token_count, max, fails)
                ELSE ChunkLoop(Tail(lines), done,
                        Append(current_chunk_lines, line),
                        current_token_count + line_token_count, max, fails)

Chunked(text, max, fails) ==
    ChunkLoop(splitlines(text, <<>>), <<>>, <<>>, 0, max, fails)

NotChunked == <<<<"not chunked">>>>

chunk_data_by_tokens ==
    /\ chunks = NotChunked
    /\ chunks' = Chunked(data_string, max_tokens_per_chunk, count_fails)
    /\ UNCHANGED <<data_string, max_tokens_per_chunk, count_fails>>

\* ------------------------------------------------------------------------
\* generate_gemini_summary
\* ------------------------------------------------------------------------

\* Characters of a text handed to generate_gemini_summary, at most.
MaxDataChars == 4

\* max_tokens_per_chunk of config.ini, and the tokens of the prompt template.
ChunkSizes == {2, 3}

PromptTokens == {1, 3}

\* finish_reason of a response without parts: that of its first candidate,
\* or UNKNOWN when it has no candidate.
FinishReasons == {"SAFETY", "UNKNOWN"}

\* The data argument: None, a list (an element "" is a falsy one), a text, or
\* a text that is a JSON array written on one line (value holds its items).
Data(type, json, value) == [type |-> type, json |-> json, value |-> value]

NoneData == Data("NoneType", FALSE, <<>>)

SummaryTexts == UNION {[1..n -> {"a", LineBreak}] : n \in 0..MaxDataChars}

JsonArrays == {Data("str", TRUE, [i \in 1..n |-> "a"]) : n \in 0..2}

SummaryData ==
    {NoneData, Data("list", FALSE, <<>>), Data("list", FALSE, <<"">>)}
    \cup {Data("str", FALSE, t) : t \in SummaryTexts}
    \cup JsonArrays

\* not data.
not_data(d) == d.type = "NoneType" \/ (~d.json /\ d.value = <<>>)

\* The test that returns the no-data message, for None alone.
NoDataToProcess_none_only(d) == d.type = "NoneType"

\* not data or (isinstance(data, (list, dict)) and not any(data)).
NoDataToProcess(d) ==
    not_data(d) \/ (d.type = "list" /\ ~\E i \in DOMAIN d.value : d.value[i] # "")

\* json.dumps(json.loads(data), indent=2) for a JSON array: the brackets and
\* each item on a line of their own.
RECURSIVE ItemLines(_)
ItemLines(items) ==
    IF items = <<>> THEN <<>>
    ELSE <<Head(items), LineBreak>> \o ItemLines(Tail(items))

\* data_string: JSON is written again with indent=2, other text stays.
DataString(d) ==
    IF d.json
        THEN IF d.value = <<>> THEN <<"[", "]">>
             ELSE <<"[", LineBreak>> \o ItemLines(d.value) \o <<"]">>
        ELSE d.value

\* A returned str, a returned {"error": text}, and no value yet.
StrValue(text) == [kind |-> "str", text |-> text]

ErrorValue(text) == [kind |-> "dict", text |-> text]

NoSummary == [kind |-> "none", text |-> <<>>]

NoDataMessage ==
    StrValue(<<"No data available for this audit. The API returned an empty result.">>)

\* What _call_gemini_with_retry ends with: a response with parts, a response
\* without parts, or an exception (retries exhausted, or any other error).
GenerationResults ==
    {[kind |-> "parts", reason |-> "STOP"], [kind |-> "raised", reason |-> ""]}
    \cup {[kind |-> "no_parts", reason |-> r] : r \in FinishReasons}

\* _handle_gemini_response.
handle_gemini_response(response) ==
    IF response.kind = "parts"
        THEN StrValue(<<"summary">>)
        ELSE ErrorValue(<<"The response from the AI was blocked or incomplete. Finish Reason: ",
                          response.reason, ". Safety Ratings: ", "N/A">>)

NoCall ==
    [pc |-> "idle", data |-> NoneData, data_string |-> <<>>, chunks |-> <<>>,
     i |-> 0, partial_summaries |-> <<>>, count_tokens |-> 0,
     generate_content |-> 0, update_state |-> 0, no_content |-> <<>>,
     result |-> NoSummary]

\* except Exception as e: return {"error": error_message}.
Excepted(c, e) ==
    [c EXCEPT !.pc = "returned",
              !.result = ErrorValue(<<"An error occurred while generating the summary: ">> \o e)]

\* trimmed_data.splitlines()[0] of _build_full_prompt raises IndexError for
\* data that is white space only.
build_full_prompt_raises(text) == \A i \in DOMAIN text : text[i] = LineBreak

\* The call after _build_full_prompt(prompt, text, audit_name).
Prompted(c, text) ==
    IF build_full_prompt_raises(text)
        THEN Excepted(c, <<"list index out of range">>)
        ELSE c

\* combined_summary_text = "\n\n---\n\n".join(partial_summaries): str.join
\* raises TypeError for an item that is a dict.
Joined(c) ==
    IF \E j \in DOMAIN c.partial_summaries : c.partial_summaries[j].kind = "dict"
        THEN LET first == CHOOSE j \in DOMAIN c.partial_summaries :
                            /\ c.partial_summaries[j].kind = "dict"
                            /\ \A k \in 1..(j - 1) : c.partial_summaries[k].kind # "dict"
             IN  Excepted(c, <<"sequence item ">> \o str(first - 1)
                                \o <<": expected str instance, dict found">>)
        ELSE [c EXCEPT !.pc = "reduce"]

\* celery_task.update_state(state='PROGRESS', ...): every caller passes its
\* task, so the update is made wherever the code has one.
Progress(c) == [c EXCEPT !.update_state = @ + 1]

\* generate_gemini_summary up to its first generation request: the no-data
\* return, the token counts (model.count_tokens raises when fails), and the
\* choice between the single call and map-reduce.
SummaryCall(d, max, prompt_tokens, fails) ==
    LET started == [NoCall EXCEPT !.data = d]
        text == DataString(d)
        counted == [started EXCEPT !.data_string = text, !.count_tokens = 3]
    IN  IF NoDataToProcess(d)
            THEN [started EXCEPT !.pc = "returned", !.result = NoDataMessage]
        ELSE IF fails
            THEN Excepted([counted EXCEPT !.count_tokens = 2], <<"count_tokens failed">>)
        ELSE IF count_tokens(text) + prompt_tokens < max
            THEN Prompted(Progress([counted EXCEPT !.pc = "single"]), text)
        ELSE LET cs == Chunked(text, max - prompt_tokens, FALSE)
             IN  Prompted(Progress([counted EXCEPT !.pc = "map", !.chunks = cs, !.i = 1,
                                          !.count_tokens = 3 + Len(splitlines(text, <<>>))]),
                          cs[1])

\* The call after a generation request was answered with a response.
Answered(c, response) ==
    [c EXCEPT !.generate_content = @ + 1,
              !.no_content = IF response.kind = "no_parts"
                                THEN Append(@, response.reason) ELSE @]

\* return _handle_gemini_response(response, audit_name) of the single call
\* and of the reduce call.
Returning(c, response) ==
    IF response.kind = "raised"
        THEN Excepted(Answered(c, response), <<"generate_content failed">>)
        ELSE [Answered(c, response) EXCEPT !.pc = "returned",
                                           !.result = handle_gemini_response(response)]

single_call(response) ==
    /\ call.pc = "single"
    /\ call' = Returning(call, response)
    /\ UNCHANGED <<task, reports>>

\* One turn of the map loop: the request for chunk i is answered; the next
\* chunk's prompt is built, or the partial summaries are joined.
map_call(response) ==
    /\ call.pc = "map"
    /\ call' =
        IF response.kind = "raised"
            THEN Excepted(Answered(call, response), <<"generate_content failed">>)
        ELSE LET appended == [Answered(call, response) EXCEPT
                                !.partial_summaries =
                                    Append(@, handle_gemini_response(response))]
             IN  IF call.i < Len(call.chunks)
                    THEN Prompted(Progress([appended EXCEPT !.i = @ + 1]),
                                  call.chunks[call.i + 1])
                    ELSE Joined(Progress(appended))
    /\ UNCHANGED <<task, reports>>

reduce_call(response) ==
    /\ call.pc = "reduce"
    /\ call' = Returning(call, response)
    /\ UNCHANGED <<task, reports>>

NoTask ==
    [name |-> "none", status |-> "none", todo |-> <<>>, report_content |-> <<>>,
     changes_found |-> FALSE, summary_errors |-> <<>>]

\* A call of generate_gemini_summary by itself.
generate_gemini_summary(d, max, prompt_tokens, fails) ==
    /\ task.status = "none"
    /\ call.pc = "idle"
    /\ task' = [NoTask EXCEPT !.name = "generate_gemini_summary", !.status = "running"]
    /\ call' = SummaryCall(d, max, prompt_tokens, fails)
    /\ UNCHANGED reports

\* ------------------------------------------------------------------------
\* Report tasks
\* ------------------------------------------------------------------------

\* audit_names of a report task.
ReportAudits == {<<"a1">>, <<"a1", "a2">>}

\* What the tasks hand to generate_gemini_summary: json.dumps(..., indent=2)
\* of results, the CSV of a YL2 audit (possibly empty), or a diff.
TaskData ==
    {Data("str", FALSE, <<>>), Data("str", FALSE, <<"a">>),
     Data("str", FALSE, <<"a", "a", LineBreak, "a", "a">>),
     Data("str", TRUE, <<"a">>)}

DiffData == {d \in TaskData : ~d.json /\ d.value # <<>>}

LoopTasks == {"generate_report_task", "generate_combined_diff_report_task"}

SummaryTasks == {"generate_insight_report_task", "generate_diff_report_task"}

Started(name, names) == [NoTask EXCEPT !.name = name, !.status = "running", !.todo = names]

\* f"## {audit_name}\n\n{body}\n\n".
Section(audit_name, body) ==
    <<"## ", audit_name, "\n\n">> \o body \o <<"\n\n">>

\* The task after report_content.append(section): the loop goes on with the
\* next audit name.
Appended(t, body) ==
    [t EXCEPT !.report_content = @ \o Section(Head(t.todo), body),
              !.todo = Tail(@)]

\* db_session.add(Report(report_content=content, status="Completed")) and
\* commit: the String column takes a str; for a dict the driver refuses the
\* parameter and commit raises.
CommitRaises(content) == content.kind # "str"

\* report_name of a new Report: the name format of the schedule filled in,
\* or the default name of the task, with the date of the run.
ReportName(name) ==
    CASE name = "generate_report_task" -> <<"Ad-Hoc Report - ", "date">>
      [] name = "generate_combined_diff_report_task" -> <<"Daily Change Report - ", "date">>
      [] name = "generate_insight_report_task" -> <<"Insight Report: ", "title", " - ", "date">>
      [] OTHER -> <<"Diff Report: ", "a1", " - ", "date">>

ReportRow(name, content) ==
    [by |-> name, report_name |-> ReportName(name),
     report_content |-> content.text, status |-> "Completed"]

\* The start of generate_report_task and of
\* generate_combined_diff_report_task.
generate_report_task(names) ==
    /\ task.status = "none"
    /\ call.pc = "idle"
    /\ task' = Started("generate_report_task", names)
    /\ UNCHANGED <<call, reports>>

generate_combined_diff_report_task(names) ==
    /\ task.status = "none"
    /\ call.pc = "idle"
    /\ task' = Started("generate_combined_diff_report_task", names)
    /\ UNCHANGED <<call, reports>>

\* One turn of the loop of generate_report_task, up to the call of
\* generate_gemini_summary: found is whether a successful run exists.
report_audit(found, d, max, prompt_tokens, fails) ==
    /\ task.status = "running"
    /\ task.name = "generate_report_task"
    /\ task.todo # <<>>
    /\ call.pc = "idle"
    /\ IF found
        THEN /\ call' = SummaryCall(d, max, prompt_tokens, fails)
             /\ UNCHANGED task
        ELSE /\ task' = Appended(task, <<"No successful audit run found.">>)
             /\ UNCHANGED call
    /\ UNCHANGED reports

\* One turn of the loop of generate_combined_diff_report_task, up to the
\* call of generate_gemini_summary: runs is "one" for less than two
\* successful runs, "same" for two runs without differences, "changed"
\* for two runs whose diff is d.
combined_diff_audit(runs, d, max, prompt_tokens, fails) ==
    /\ task.status = "running"
    /\ task.name = "generate_combined_diff_report_task"
    /\ task.todo # <<>>
    /\ call.pc = "idle"
    /\ CASE runs = "one" ->
              /\ task' = Appended(task, <<"*Insufficient history to generate a diff (needs at least 2 successful runs).*">>)
              /\ UNCHANGED call
         [] runs = "same" ->
              /\ task' = [task EXCEPT !.todo = Tail(@)]
              /\ UNCHANGED call
         [] runs = "changed" ->
              /\ task' = [task EXCEPT !.changes_found = TRUE]
              /\ call' = SummaryCall(d, max, prompt_tokens, fails)
    /\ UNCHANGED reports

\* The loop turn after generate_gemini_summary returned: the summary, or the
\* error it returned, becomes a section.
append_summary ==
    /\ task.status = "running"
    /\ task.name \in LoopTasks
    /\ call.pc = "returned"
    /\ LET summary == call.result
           noted == [task EXCEPT !.summary_errors =
                        IF summary.kind = "dict" THEN Append(@, summary.text) ELSE @]
           label == IF task.name = "generate_report_task"
                        THEN <<"Error generating summary: ">>
                        ELSE <<"Error generating diff summary: ">>
       IN  task' = Appended(noted, IF summary.kind = "dict"
                                      THEN label \o summary.text
                                      ELSE summary.text)
    /\ call' = NoCall
    /\ UNCHANGED reports

\* full_report of generate_combined_diff_report_task.
CombinedReport(t) ==
    IF ~t.changes_found /\ t.report_content = <<>>
        THEN <<"## No Significant Changes Detected">>
    ELSE IF ~t.changes_found
        THEN <<"## Audit Status Summary (No Configuration Changes Detected)">>
                \o t.report_content
    ELSE t.report_content

\* After the loop: the Report row is written, unless formatting the report
\* name or the commit raises, which ends the task in state FAILURE.
finalize_report(raises) ==
    /\ task.status = "running"
    /\ task.name \in LoopTasks
    /\ task.todo = <<>>
    /\ call.pc = "idle"
    /\ IF raises
        THEN /\ task' = [task EXCEPT !.status = "FAILURE"]
             /\ UNCHANGED reports
        ELSE /\ reports' = Append(reports, ReportRow(task.name,
                    StrValue(IF task.name = "generate_report_task"
                                THEN task.report_content
                                ELSE CombinedReport(task))))
             /\ task' = [task EXCEPT !.status = "SUCCESS"]
    /\ UNCHANGED call

\* generate_insight_report_task up to the call of generate_gemini_summary:
\* a missing insight raises ValueError, which the task returns as a status.
generate_insight_report_task(exists, d, max, prompt_tokens, fails) ==
    /\ task.status = "none"
    /\ call.pc = "idle"
    /\ IF exists
        THEN /\ task' = Started("generate_insight_report_task", <<>>)
             /\ call' = SummaryCall(d, max, prompt_tokens, fails)
        ELSE /\ task' = [Started("generate_insight_report_task", <<>>)
                            EXCEPT !.status = "An error occurred"]
             /\ UNCHANGED call
    /\ UNCHANGED reports

\* generate_diff_report_task up to the call of generate_gemini_summary, or
\* to its end: valid is whether the two rows pass the validation, differs
\* whether generate_json_diff found differences, d the diff.
generate_diff_report_task(valid, differs, d, max, prompt_tokens, fails) ==
    /\ task.status = "none"
    /\ call.pc = "idle"
    /\ IF ~valid
        THEN /\ task' = [Started("generate_diff_report_task", <<>>)
                            EXCEPT !.status = "An error occurred"]
             /\ UNCHANGED <<call, reports>>
       ELSE IF ~differs
        THEN /\ task' = [Started("generate_diff_report_task", <<>>)
                            EXCEPT !.status = "SUCCESS"]
             /\ reports' = Append(reports, ReportRow("generate_diff_report_task",
                    StrValue(<<"No differences found between the two selected audit runs.">>)))
             /\ UNCHANGED call
       ELSE /\ task' = Started("generate_diff_report_task", <<>>)
            /\ call' = SummaryCall(d, max, prompt_tokens, fails)
            /\ UNCHANGED reports

\* The end of generate_insight_report_task and of generate_diff_report_task:
\* Report(report_content=summary) is committed; an exception of the commit
\* is returned as a status and no row is written.
save_summary_report ==
    /\ task.status = "running"
    /\ task.name \in SummaryTasks
    /\ call.pc = "returned"
    /\ LET summary == call.result
           noted == [task EXCEPT !.summary_errors =
                        IF summary.kind = "dict" THEN Append(@, summary.text) ELSE @]
       IN  IF CommitRaises(summary)
            THEN /\ task' = [noted EXCEPT !.status = "An error occurred"]
                 /\ UNCHANGED reports
            ELSE /\ task' = [noted EXCEPT !.status = "SUCCESS"]
                 /\ reports' = Append(reports, ReportRow(task.name, summary))
    /\ call' = NoCall

\* ------------------------------------------------------------------------
\* main.rename_report
\* ------------------------------------------------------------------------

\* request.new_name.
NewNames == {<<"renamed">>}

\* The row rewritten as a whole by the rename.
RenamedRow_rewriting(row, new_name) ==
    [row EXCEPT !.report_name = new_name, !.report_content = <<>>]

\* report.report_name = request.new_name.
RenamedRow(row, new_name) == [row EXCEPT !.report_name = new_name]

\* PUT /api/reports/{report_id}/rename: 404 for an id without a row.
rename_report(report_id, new_name) ==
    /\ report_id \in DOMAIN reports
    /\ reports' = [reports EXCEPT ![report_id] = RenamedRow(@, new_name)]
    /\ UNCHANGED <<call, task>>

\* ------------------------------------------------------------------------
\* Concurrent instances of schedule_ticker
\* ------------------------------------------------------------------------

\* Instances of the task that may run at the same time.
TickerInstances == {1, 2}

\* The ids in a set, in ascending order: the order the rows are loaded in.
RECURSIVE InIdOrder(_)
InIdOrder(ids) ==
    IF ids = {} THEN <<>>
    ELSE LET least == CHOOSE i \in ids : \A j \in ids : i <= j
         IN  <<least>> \o InIdOrder(ids \ {least})

\* An instance that is not running.
NoTicker == [pc |-> "idle", now |-> 0, todo |-> <<>>, rows |-> <<>>, expired |-> FALSE]

\* The row an instance reads for a schedule: the one its query loaded, or,
\* after a commit of its own session has expired the loaded rows, the one
\* in the database.
LoadedRow(k, id) == IF k.expired THEN schedules[id] ELSE k.rows[id]

\* The Schedule rows after run_scheduled_job.delay(schedule.id), had the
\* watermark been written in the same step.
RowsAtDispatch_claiming(k, id) ==
    [schedules EXCEPT ![id] = TickedRow(schedules[id], k.now)]

\* The Schedule rows after run_scheduled_job.delay(schedule.id): the
\* database is as it was, last_run_at is assigned and committed afterwards.
RowsAtDispatch(k, id) == schedules

\* An instance starts: it reads the clock and loads the enabled rows.
ticker_starts(i, t) ==
    /\ tickers[i].pc = "idle"
    /\ t >= now
    /\ now' = t
    /\ tickers' = [tickers EXCEPT ![i] =
            [pc |-> "loop", now |-> t, todo |-> InIdOrder(EnabledIds),
             rows |-> schedules, expired |-> FALSE]]
    /\ UNCHANGED <<schedules, dispatches>>

\* One turn of the loop up to run_scheduled_job.delay: croniter raising ends
\* the task; a schedule that is due is dispatched, one that is not is passed.
ticker_evaluates(i) ==
    LET k == tickers[i]
        id == Head(k.todo)
        row == LoadedRow(k, id)
    IN  /\ k.pc = "loop"
        /\ k.todo # <<>>
        /\ IF croniter_raises(row.cron_schedule)
            THEN /\ tickers' = [tickers EXCEPT ![i] = NoTicker]
                 /\ UNCHANGED <<schedules, dispatches>>
           ELSE IF should_run(row, k.now)
            THEN /\ dispatches' = dispatches \cup
                        {<<id, get_prev(row.cron_schedule, k.now), i>>}
                 /\ schedules' = RowsAtDispatch(k, id)
                 /\ tickers' = [tickers EXCEPT ![i].pc = "commit"]
           ELSE /\ tickers' = [tickers EXCEPT ![i].todo = Tail(@)]
                /\ UNCHANGED <<schedules, dispatches>>
        /\ UNCHANGED now

\* schedule.last_run_at = now.isoformat(); db_session.commit(): the
\* watermark is written and the session's loaded rows expire.
ticker_commits(i) ==
    LET k == tickers[i]
        id == Head(k.todo)
    IN  /\ k.pc = "commit"
        /\ schedules' = [schedules EXCEPT ![id] = TickedRow(schedules[id], k.now)]
        /\ tickers' = [tickers EXCEPT ![i].pc = "loop", ![i].todo = Tail(@),
                                      ![i].expired = TRUE]
        /\ UNCHANGED <<now, dispatches>>

\* The loop is through: the task ends.
ticker_ends(i) ==
    /\ tickers[i].pc = "loop"
    /\ tickers[i].todo = <<>>
    /\ tickers' = [tickers EXCEPT ![i] = NoTicker]
    /\ UNCHANGED <<now, schedules, dispatches>>

\* ------------------------------------------------------------------------
\* Specifications
\* ------------------------------------------------------------------------

InitScheduler ==
    /\ now = 0
    /\ enqueued = {}
    /\ lastDispatched = [id \in ScheduleIds |-> <<>>]
    /\ redispatched = {}

\* The worker is idle and the Audit table empty.
InitAudit ==
    /\ job = <<>>
    /\ audits = <<>>
    /\ pc = "idle"
    /\ fn = "make_api_request"
    /\ x = 0
    /\ cfg = NoConfig
    /\ authed_session = FALSE
    /\ page_count = 0
    /\ next_page_token = FALSE
    /\ all_results = <<>>
    /\ lastF = NoOutcome
    /\ observed = NoOutcome
    /\ attempts = 0
    /\ sleeps = 0
    /\ kinds = {}
    /\ requests = 0
    /\ totalRequests = 0
    /\ served = 0

\* The schedules left alone: two enabled every-minute schedules.
InitSchedulerIdle ==
    /\ InitScheduler
    /\ schedules = [id \in ScheduleIds |->
            [cron_schedule |-> EveryMinute, is_enabled |-> 1, last_run_at |-> NoRun]]

\* The Audit table is empty and nothing has read it.
InitStore ==
    /\ auditTable = {}
    /\ lastRead = NoRead

\* No two documents are being compared.
InitDiff ==
    /\ json_str1 = Object(<<>>)
    /\ json_str2 = Object(<<>>)
    /\ diff_output = NotCompared

\* No text is being chunked.
InitChunk ==
    /\ data_string = <<>>
    /\ max_tokens_per_chunk = 0
    /\ count_fails = FALSE
    /\ chunks = NotChunked

\* No summary is being generated and no report task runs.
InitSummary ==
    /\ call = NoCall
    /\ task = NoTask
    /\ reports = <<>>

\* No instance of schedule_ticker is followed step by step.
InitTickers ==
    /\ tickers = [i \in TickerInstances |-> NoTicker]
    /\ dispatches = {}

\* No instance of purge_audits_task is followed step by step.
InitPurges == purges = [i \in PurgeInstances |-> NoPurge]

Init ==
    /\ InitScheduler
    /\ schedules \in [ScheduleIds ->
            [cron_schedule : CronSet, is_enabled : {0, 1}, last_run_at : {NoRun}]]
    /\ InitAudit
    /\ InitStore
    /\ InitDiff
    /\ InitChunk
    /\ InitSummary
    /\ InitTickers
    /\ InitPurges

history == <<lastDispatched, redispatched>>

\* The scheduler: ticks, manual runs and schedule edits.
Next ==
    \/ \E t \in Instants : schedule_ticker(t) /\ UNCHANGED <<history, besideScheduler>>
    \/ \E id \in ScheduleIds, t \in Instants :
            run_schedule_now(id, t) /\ UNCHANGED <<history, besideScheduler>>
    \/ \E id \in ScheduleIds, cron \in CronSet, enabled \in {0, 1} :
            update_schedule(id, cron, enabled) /\ UNCHANGED <<history, besideScheduler>>

Spec == Init /\ [][Next]_vars

\* The same operations, with the ticker's dispatches recorded per occurrence.
NextRecorded ==
    \/ \E t \in Instants :
            schedule_ticker(t) /\ RecordDispatches(t) /\ UNCHANGED besideScheduler
    \/ \E id \in ScheduleIds, t \in Instants :
            run_schedule_now(id, t) /\ UNCHANGED <<history, besideScheduler>>
    \/ \E id \in ScheduleIds, cron \in CronSet, enabled \in {0, 1} :
            update_schedule(id, cron, enabled) /\ UNCHANGED <<history, besideScheduler>>

SpecRecorded == Init /\ [][NextRecorded]_vars

\* The worker: scheduled audit jobs and summarisation calls, with the
\* schedules as two enabled every-minute schedules that are left alone.
InitWorker ==
    /\ InitSchedulerIdle
    /\ InitAudit
    /\ InitStore
    /\ InitDiff
    /\ InitChunk
    /\ InitSummary
    /\ InitTickers
    /\ InitPurges

NextWorker ==
    \/ \E names \in AuditsToRun : run_scheduled_job(names) /\ UNCHANGED besideWorker
    \/ \E lookup \in Lookups, c \in AuditConfigs :
            run_audit_logic(lookup, c) /\ UNCHANGED besideWorker
    \/ \E auth \in AuthOutcomes :
            make_api_request(auth) /\ UNCHANGED besideWorker
    \/ \E resp \in Responses(page_count) : request_page(resp) /\ UNCHANGED besideWorker
    \/ backoff_ends /\ UNCHANGED besideWorker
    \/ call_gemini_with_retry /\ UNCHANGED besideWorker
    \/ \E out \in GeminiOutcomes : generate_content(out) /\ UNCHANGED besideWorker

SpecWorker == InitWorker /\ [][NextWorker]_vars

\* The Audit table alone: rows are saved, purged and read.
InitStoreSpec ==
    /\ InitSchedulerIdle
    /\ InitAudit
    /\ InitStore
    /\ InitDiff
    /\ InitChunk
    /\ InitSummary
    /\ InitTickers
    /\ InitPurges

NextStore ==
    \/ \E tenant \in Tenants, name \in AuditNames, status \in Statuses,
          t \in RunInstants :
            save_audit(tenant, name, status, t) /\ UNCHANGED besideStore
    \/ \E cutoff \in RunInstants \cup {60 + MaxRunInstant},
          name \in AuditNames \cup {""} :
            purge_audits_task(cutoff, name) /\ UNCHANGED besideStore
    \/ \E tenant \in Tenants, name \in AuditNames :
            latest_successful_run(tenant, name) /\ UNCHANGED besideStore
    \/ \E tenant \in Tenants, name \in AuditNames :
            latest_two_runs(tenant, name) /\ UNCHANGED besideStore
    \/ \E tenant \in Tenants, name \in AuditNames :
            get_audits_status(tenant, name) /\ UNCHANGED besideStore

SpecStore == InitStoreSpec /\ [][NextStore]_vars

\* generate_json_diff applied to two documents.
InitDiffSpec ==
    /\ InitSchedulerIdle
    /\ InitAudit
    /\ InitStore
    /\ json_str1 \in JsonDocuments
    /\ json_str2 \in JsonDocuments
    /\ diff_output = NotCompared
    /\ InitChunk
    /\ InitSummary
    /\ InitTickers
    /\ InitPurges

NextDiff == generate_json_diff /\ UNCHANGED besideDiff

SpecDiff == InitDiffSpec /\ [][NextDiff]_vars

\* chunk_data_by_tokens applied to a text and a budget.
InitChunkSpec ==
    /\ InitSchedulerIdle
    /\ InitAudit
    /\ InitStore
    /\ InitDiff
    /\ data_string \in Texts
    /\ max_tokens_per_chunk \in Budgets
    /\ count_fails \in BOOLEAN
    /\ chunks = NotChunked
    /\ InitSummary
    /\ InitTickers
    /\ InitPurges

NextChunk == chunk_data_by_tokens /\ UNCHANGED besideChunk

SpecChunk == InitChunkSpec /\ [][NextChunk]_vars

\* generate_gemini_summary, by itself and inside the report tasks.
InitSummarySpec ==
    /\ InitSchedulerIdle
    /\ InitAudit
    /\ InitStore
    /\ InitDiff
    /\ InitChunk
    /\ InitSummary
    /\ InitTickers
    /\ InitPurges

NextSummary ==
    \/ \E d \in SummaryData, max \in ChunkSizes, prompt_tokens \in PromptTokens,
          fails \in BOOLEAN :
            generate_gemini_summary(d, max, prompt_tokens, fails)
                /\ UNCHANGED besideSummary
    \/ \E response \in GenerationResults : single_call(response) /\ UNCHANGED besideSummary
    \/ \E response \in GenerationResults : map_call(response) /\ UNCHANGED besideSummary
    \/ \E response \in GenerationResults : reduce_call(response) /\ UNCHANGED besideSummary
    \/ \E names \in ReportAudits : generate_report_task(names) /\ UNCHANGED besideSummary
    \/ \E names \in ReportAudits :
            generate_combined_diff_report_task(names) /\ UNCHANGED besideSummary
    \/ \E found \in BOOLEAN, d \in TaskData, max \in ChunkSizes,
          prompt_tokens \in PromptTokens, fails \in BOOLEAN :
            report_audit(found, d, max, prompt_tokens, fails) /\ UNCHANGED besideSummary
    \/ \E runs \in {"one", "same", "changed"}, d \in DiffData, max \in ChunkSizes,
          prompt_tokens \in PromptTokens, fails \in BOOLEAN :
            combined_diff_audit(runs, d, max, prompt_tokens, fails)
                /\ UNCHANGED besideSummary
    \/ append_summary /\ UNCHANGED besideSummary
    \/ \E raises \in BOOLEAN : finalize_report(raises) /\ UNCHANGED besideSummary
    \/ \E exists \in BOOLEAN, d \in {e \in TaskData : e.json}, max \in ChunkSizes,
          prompt_tokens \in PromptTokens, fails \in BOOLEAN :
            generate_insight_report_task(exists, d, max, prompt_tokens, fails)
                /\ UNCHANGED besideSummary
    \/ \E valid \in BOOLEAN, differs \in BOOLEAN, d \in DiffData, max \in ChunkSizes,
          prompt_tokens \in PromptTokens, fails \in BOOLEAN :
            generate_diff_report_task(valid, differs, d, max, prompt_tokens, fails)
                /\ UNCHANGED besideSummary
    \/ save_summary_report /\ UNCHANGED besideSummary
    \/ \E report_id \in 1..2, new_name \in NewNames :
            rename_report(report_id, new_name) /\ UNCHANGED besideSummary

SpecSummary == InitSummarySpec /\ [][NextSummary]_vars

\* Two instances of schedule_ticker over the same Schedule rows.
InitTickerInstances ==
    /\ InitScheduler
    /\ schedules \in [ScheduleIds ->
            [cron_schedule : {EveryMinute, BadCron}, is_enabled : {0, 1},
             last_run_at : {NoRun}]]
    /\ InitAudit
    /\ InitStore
    /\ InitDiff
    /\ InitChunk
    /\ InitSummary
    /\ InitTickers
    /\ InitPurges

NextTickerInstances ==
    \/ \E i \in TickerInstances, t \in Instants :
            ticker_starts(i, t) /\ UNCHANGED besideTickerInstances
    \/ \E i \in TickerInstances : ticker_evaluates(i) /\ UNCHANGED besideTickerInstances
    \/ \E i \in TickerInstances : ticker_commits(i) /\ UNCHANGED besideTickerInstances
    \/ \E i \in TickerInstances : ticker_ends(i) /\ UNCHANGED besideTickerInstances

SpecTickerInstances == InitTickerInstances /\ [][NextTickerInstances]_vars

\* Two instances of purge_audits_task and audit runs over the same table.
InitPurgeInstances == InitStoreSpec

NextPurgeInstances ==
    \/ \E name \in AuditNames, t \in RunInstants :
            /\ save_audit("p1", name, "Success", t)
            /\ UNCHANGED <<purges, besidePurgeInstances>>
    \/ \E i \in PurgeInstances, cutoff \in RunInstants \cup {60 + MaxRunInstant},
          name \in AuditNames \cup {""} :
            purge_counts(i, cutoff, name) /\ UNCHANGED besidePurgeInstances
    \/ \E i \in PurgeInstances : purge_deletes(i) /\ UNCHANGED besidePurgeInstances

SpecPurgeInstances == InitPurgeInstances /\ [][NextPurgeInstances]_vars

\* ------------------------------------------------------------------------
\* The ticker under Celery beat: time passes, and beat keeps starting
\* schedule_ticker
\* ------------------------------------------------------------------------

\* The clock advances with no task running.
time_passes(t) ==
    /\ t > now
    /\ now' = t
    /\ UNCHANGED <<schedules, enqueued>>

\* A tick started by beat, at the clock value it reads.
beat_tick ==
    \E t \in Instants : schedule_ticker(t) /\ UNCHANGED <<history, besideScheduler>>

NextBeat ==
    \/ \E t \in Instants : time_passes(t) /\ UNCHANGED <<history, besideScheduler>>
    \/ beat_tick

\* crontab() in beat_schedule: as long as a tick would do something, one
\* comes.
SpecBeat == Init /\ [][NextBeat]_vars /\ WF_vars(beat_tick)
\* ------------------------------------------------------------------------
\* Scheduler: claims
\* ------------------------------------------------------------------------

\* The step is one of schedule_ticker (of run_schedule_now), at the clock
\* value it read.
IsTick == now' \in Instants /\ schedule_ticker(now')

IsRunNow == now' \in Instants /\ \E id \in ScheduleIds : run_schedule_now(id, now')

TickerJobs(q) == {e.id : e \in {d \in q : d.by = "schedule_ticker"}}

\* C1: with ticker runs that never overlap, the ticker never enqueues a
\* schedule for a cron occurrence it has already enqueued it for (nor for an
\* earlier one), whatever the times of the ticks.
C1_AtMostOncePerOccurrence == redispatched = {}

\* A tick has just evaluated a schedule within the occurrence of its last
\* dispatch and enqueued nothing.
C1_Witness ==
    /\ now > 0
    /\ enqueued = {}
    /\ \A id \in ScheduleIds : schedules[id].last_run_at # isoformat(now)
    /\ \E id \in EvaluatedIds :
        /\ schedules[id].last_run_at # NoRun
        /\ lastDispatched[id] = <<get_prev(schedules[id].cron_schedule, now)>>

C3_Original ==
    [][IsTick => \A id \in ScheduleIds :
        ( /\ schedules[id].is_enabled = 1
          /\ ~croniter_raises(schedules[id].cron_schedule)
          /\ schedules[id].last_run_at = NoRun )
        => ( id \in TickerJobs(enqueued')
             <=> now' - get_prev(schedules[id].cron_schedule, now') < CatchUpWindow )]_vars

AttemptDone == pc \in {"sleep", "idle"} /\ attempts > 0

CallDone == pc = "idle" /\ attempts > 0

ApiCall == fn = "make_api_request"

\* The outcome is a failure, and it is a rate-limit or availability failure:
\* one of the two Google API exceptions, or status 429 behind an HTTP error or
\* in the payload.
IsFailure(out) == out.kind = "raised" \/ out.has_error

IsRateLimit(out) ==
    \/ out.exc \in {"ResourceExhausted", "ServiceUnavailable"}
    \/ out.status = TooManyRequests

\* C5 as stated: make_api_request with a positive max_pages sends at most
\* max_pages requests, and with a results key configured the result it
\* returns holds as many items as the pages it fetched held under that key.
C5_Original ==
    /\ (ApiCall /\ cfg.max_pages > 0) => totalRequests <= cfg.max_pages
    /\ ( /\ ApiCall /\ CallDone /\ cfg.results_key
         /\ observed.kind = "returned" /\ ~observed.has_error )
        => Len(observed.items) = served

\* C5 as amended: one attempt of make_api_request sends at most max_pages
\* requests when max_pages is positive, none when it is negative, and never
\* more than the server has pages; the whole call sends at most retries + 1
\* times as many; and when an attempt returns the aggregate under the results
\* key, its item count is the sum of the item counts of the pages fetched in
\* that attempt.
C5_Amended ==
    ApiCall =>
        /\ requests <= MaxServerPages
        /\ totalRequests <= (ApiRetries + 1) * MaxServerPages
        /\ cfg.max_pages > 0 =>
            /\ requests <= cfg.max_pages
            /\ totalRequests <= (ApiRetries + 1) * cfg.max_pages
        /\ cfg.max_pages < 0 => totalRequests = 0
        /\ (AttemptDone /\ lastF.shape = "aggregate") => Len(lastF.items) = served

\* A fetch was stopped by max_pages after two or more pages, with a token in
\* hand, and returned the items of those pages.
C5_Witness ==
    /\ ApiCall /\ CallDone
    /\ observed.shape = "aggregate"
    /\ cfg.max_pages >= 2
    /\ requests = cfg.max_pages
    /\ page_count > cfg.max_pages
    /\ next_page_token
    /\ Len(observed.items) >= 2

C7_RetryBound ==
    /\ attempts <= Retries(fn) + 1
    /\ (CallDone /\ IsFailure(lastF) /\ IsRateLimit(lastF))
        => /\ attempts = Retries(fn) + 1
           /\ sleeps = Retries(fn)
           /\ observed.kind = "raised"

\* A call has ended after retries + 1 attempts that failed with exceptions of
\* both Google API classes.
C7_Witness ==
    /\ CallDone
    /\ fn = "_call_gemini_with_retry"
    /\ attempts = GeminiRetries + 1
    /\ {"ResourceExhausted", "ServiceUnavailable"} \subseteq kinds
    /\ observed.kind = "raised"

\* C8 as stated: the wrapper sleeps after an attempt only if the attempt
\* failed with a rate-limit or availability failure, and it does so after
\* every such failure while retries are left.
C8_Original ==
    /\ pc = "sleep" => IsFailure(lastF) /\ IsRateLimit(lastF)
    /\ (AttemptDone /\ IsFailure(lastF) /\ IsRateLimit(lastF) /\ x < Retries(fn))
        => pc = "sleep"

\* C9 as stated: when the wrapper returns into its caller after a failed last
\* attempt, the caller gets what that attempt returned or raised.
C9_Original ==
    (CallDone /\ IsFailure(lastF)) => observed = lastF

\* C10 as stated: every audit name run_scheduled_job is done with has left
\* exactly one new Audit row, a Success or a Failed one.
C10_Original ==
    [][(job # <<>> /\ job' = Tail(job))
        => /\ Len(audits') = Len(audits) + 1
           /\ audits'[Len(audits')].status \in {"Success", "Failed"}]_vars

\* ------------------------------------------------------------------------
\* Claims about the Audit table
\* ------------------------------------------------------------------------

\* The Success row of the greatest run_timestamp for a tenant and an audit
\* name, the greatest id among rows of that run_timestamp.
LatestById(table, tenant, name) ==
    {r \in SuccessfulRuns(table, tenant, name) :
        \A o \in SuccessfulRuns(table, tenant, name) :
            \/ iso_less(o.run_timestamp, r.run_timestamp)
            \/ (o.run_timestamp = r.run_timestamp /\ o.id <= r.id)}

\* C11: every reader of the latest successful run of a tenant's audit
\* selects the Success row of the greatest run_timestamp, and among rows of
\* equal run_timestamp the one of the greatest id.
C11_Original ==
    (lastRead.by # "none" /\ Len(lastRead.rows) > 0) =>
        lastRead.rows[1] \in LatestById(auditTable, lastRead.tenant, lastRead.name)

\* C12: a row of the Audit table is never changed; rows appear only in the
\* insert of run_audit_logic and disappear only in purge_audits_task.
C12_RowsImmutable ==
    [][/\ \A r \in auditTable : \A n \in auditTable' : n.id = r.id => n = r
       /\ (auditTable' \ auditTable # {}) =>
              \E tenant \in Tenants, name \in AuditNames, status \in Statuses,
                 t \in RunInstants :
                    /\ save_audit(tenant, name, status, t)
                    /\ auditTable \subseteq auditTable'
       /\ (auditTable \ auditTable' # {}) =>
              \E cutoff \in RunInstants \cup {60 + MaxRunInstant},
                 name \in AuditNames \cup {""} :
                    /\ purge_audits_task(cutoff, name)
                    /\ auditTable' \subseteq auditTable]_vars

\* Rows were saved and a purge has deleted the row of id 1 and kept a later
\* one: ids are handed out from 1, so a table without id 1 has been purged.
C12_Witness ==
    /\ \E r \in auditTable : r.id = 2
    /\ ~\E r \in auditTable : r.id = 1

\* The Success rows of the greatest run_timestamp for a tenant and an audit
\* name: what order_by(run_timestamp.desc()).first() may return.
LatestByTimestamp(table, tenant, name) ==
    {r \in SuccessfulRuns(table, tenant, name) :
        \A o \in SuccessfulRuns(table, tenant, name) :
            ~iso_less(r.run_timestamp, o.run_timestamp)}

\* C28 as stated: in every state of the Audit table, for every tenant and
\* audit name, the Success row of the greatest id (the one get_audits_status
\* selects) is the Success row the readers by run_timestamp select.
C28_Original ==
    \A tenant \in Tenants, name \in AuditNames :
        MaxIdRun(auditTable, tenant, name)
            \subseteq LatestByTimestamp(auditTable, tenant, name)

\* ------------------------------------------------------------------------
\* Claims about generate_json_diff
\* ------------------------------------------------------------------------

\* Two parsed documents are equal as Python compares them: numbers by value,
\* dicts by their keys and the values under them, whatever the order.
RECURSIVE EqualUpToKeyOrder(_, _)
EqualUpToKeyOrder(v, w) ==
    /\ v.kind = w.kind
    /\ v.n = w.n
    /\ {m.key : m \in {v.members[i] : i \in DOMAIN v.members}}
          = {m.key : m \in {w.members[i] : i \in DOMAIN w.members}}
    /\ \A i \in DOMAIN v.members : \A j \in DOMAIN w.members :
          v.members[i].key = w.members[j].key =>
              EqualUpToKeyOrder(v.members[i].value, w.members[j].value)

\* C13: for two JSON documents that are equal up to the order of keys at any
\* depth, and so for a document and itself, generate_json_diff returns the
\* no-differences message.
C13_KeyOrderInsensitive ==
    (diff_output # NotCompared
        /\ EqualUpToKeyOrder(json_loads(json_str1), json_loads(json_str2)))
    => diff_output = NoDifferences

\* Two documents written with their keys in a different order in the outer
\* object and in a nested one were compared, and no difference was reported.
C13_Witness ==
    /\ diff_output = NoDifferences
    /\ Len(json_str1.members) = 2
    /\ json_str1.members[1].key = json_str2.members[2].key
    /\ \E i, j \in 1..2 :
          /\ Len(json_str1.members[i].value.members) = 2
          /\ json_str1.members[i].key = json_str2.members[j].key
          /\ json_str1.members[i].value.members[1].key
                = json_str2.members[j].value.members[2].key

\* ------------------------------------------------------------------------
\* Claims about chunk_data_by_tokens
\* ------------------------------------------------------------------------

WasChunked == chunks # NotChunked

\* The tokens of a chunk as the loop counts them: line by line.
RECURSIVE SumTokens(_, _)
SumTokens(lines, fails) ==
    IF lines = <<>> THEN 0
    ELSE LineTokenCount(Head(lines), fails) + SumTokens(Tail(lines), fails)

ChunkTokens(chunk) == SumTokens(splitlines(chunk, <<>>), count_fails)

\* C14: the chunks put together are the text, whatever the budget (zero and
\* negative included); no chunk is empty; a chunk ends where a line ends.
C14_LosslessChunks ==
    WasChunked =>
        /\ Join(chunks) = data_string
        /\ \A i \in DOMAIN chunks : chunks[i] # <<>>
        /\ \A i \in DOMAIN chunks :
              i < Len(chunks) => chunks[i][Len(chunks[i])] = LineBreak

\* Under a budget that is zero or negative a text of several lines was cut
\* into several chunks, one of them of more than one line.
C14_Witness ==
    /\ WasChunked
    /\ max_tokens_per_chunk <= 0
    /\ Len(chunks) >= 2
    /\ \E i \in DOMAIN chunks : Len(splitlines(chunks[i], <<>>)) >= 2

\* C15: the token count of a chunk is within the budget unless the chunk is
\* one line that alone exceeds it; there are at most as many chunks as lines.
C15_ChunksWithinBudget ==
    WasChunked =>
        /\ \A i \in DOMAIN chunks :
              \/ ChunkTokens(chunks[i]) <= max_tokens_per_chunk
              \/ Len(splitlines(chunks[i], <<>>)) = 1
        /\ Len(chunks) <= Len(splitlines(data_string, <<>>))

\* A chunk of one oversized line stands next to a chunk of two lines that
\* fills the budget.
C15_Witness ==
    /\ WasChunked
    /\ \E i \in DOMAIN chunks :
          /\ ChunkTokens(chunks[i]) > max_tokens_per_chunk
          /\ Len(splitlines(chunks[i], <<>>)) = 1
    /\ \E i \in DOMAIN chunks :
          /\ ChunkTokens(chunks[i]) = max_tokens_per_chunk
          /\ Len(splitlines(chunks[i], <<>>)) = 2
    /\ max_tokens_per_chunk > 0

\* ------------------------------------------------------------------------
\* Claims about generate_gemini_summary and the report tasks
\* ------------------------------------------------------------------------

\* bool(data) is False: None, the empty text, the empty list.
IsFalsy(d) == d.type = "NoneType" \/ (~d.json /\ d.value = <<>>)

\* part occurs in text.
Contains(text, part) ==
    \E k \in 0..(Len(text) - Len(part)) : SubSeq(text, k + 1, k + Len(part)) = part

\* C16: called with empty or falsy data, generate_gemini_summary returns the
\* no-data message and issues no request to the AI service: no token count
\* and no generation.
C16_EmptyDataShortCircuit ==
    (call.pc # "idle" /\ IsFalsy(call.data)) =>
        /\ call.pc = "returned"
        /\ call.result = NoDataMessage
        /\ call.count_tokens = 0
        /\ call.generate_content = 0

\* generate_gemini_summary was called with the empty text and returned.
C16_Witness ==
    /\ task.name = "generate_gemini_summary"
    /\ call.pc = "returned"
    /\ call.data = Data("str", FALSE, <<>>)
    /\ call.result = NoDataMessage

\* C17: when a generation request of generate_gemini_summary (the single
\* one, one of a chunk, the reduce one) was answered without content, the
\* call returns an error value that carries the finish reason of such an
\* answer.
C17_Original ==
    (call.pc = "returned" /\ call.no_content # <<>>) =>
        /\ call.result.kind = "dict"
        /\ \E j \in DOMAIN call.no_content :
              Contains(call.result.text, <<call.no_content[j]>>)

\* C18: a report task in which generate_gemini_summary returned an error
\* ends with a Report row written whose content holds that error.
C18_Original ==
    (task.status \notin {"none", "running"} /\ task.summary_errors # <<>>) =>
        \E r \in DOMAIN reports :
            /\ reports[r].by = task.name
            /\ \A j \in DOMAIN task.summary_errors :
                  Contains(reports[r].report_content, task.summary_errors[j])

\* ------------------------------------------------------------------------
\* Claims about failures inside a tick and inside a job
\* ------------------------------------------------------------------------

\* C19: in a tick, an enabled schedule whose cron expression cannot be
\* evaluated is not dispatched and keeps its watermark, and every other
\* enabled schedule that is due is dispatched in that same tick.
C19_Original ==
    [][IsTick => \A id \in ScheduleIds :
        schedules[id].is_enabled = 1 =>
            IF croniter_raises(schedules[id].cron_schedule)
                THEN /\ id \notin TickerJobs(enqueued')
                     /\ schedules'[id].last_run_at = schedules[id].last_run_at
                ELSE should_run(schedules[id], now') => id \in TickerJobs(enqueued')]_vars

\* C20: the audits of a job run one after another and each exactly once: the
\* names left to run lose their first name when its run ends, whether it
\* returned or raised, and only then; no run begins while one is in flight.
C20_SequentialAudits ==
    [][/\ job' # job =>
            IF job = <<>>
                THEN pc = "idle" /\ job' \in AuditsToRun
                ELSE job' = Tail(job) /\ pc' = "idle"
       /\ (job # <<>> /\ pc = "idle" /\ pc' # "idle") => job' = job]_vars

\* A job of two audits is done: the first audit failed and the second one
\* ran and succeeded.
C20_Witness ==
    /\ job = <<>>
    /\ pc = "idle"
    /\ Len(audits) = 2
    /\ audits[1].audit_name = "a1" /\ audits[1].status = "Failed"
    /\ audits[2].audit_name = "a2" /\ audits[2].status = "Success"

\* ------------------------------------------------------------------------
\* Claims about concurrent instances of schedule_ticker
\* ------------------------------------------------------------------------

\* C21: an instance enqueues the job before it commits the watermark: the
\* step that dispatches a schedule leaves every Schedule row as it was, so a
\* second instance that decides in between decides from the old watermark
\* (the state in which both dispatched one occurrence is C21_Witness).
C21_ActThenClaim ==
    [][dispatches' # dispatches =>
        /\ schedules' = schedules
        /\ \E i \in TickerInstances :
              /\ tickers[i].pc = "loop"
              /\ tickers'[i].pc = "commit"]_vars

\* Both instances have dispatched the same schedule for the same cron
\* occurrence.
C21_Witness ==
    \E id \in ScheduleIds, t \in Instants :
        LET occurrence == get_prev(schedules[id].cron_schedule, t)
        IN  /\ ~croniter_raises(schedules[id].cron_schedule)
            /\ <<id, occurrence, 1>> \in dispatches
            /\ <<id, occurrence, 2>> \in dispatches

\* ------------------------------------------------------------------------
\* Claims about the fetch of one audit
\* ------------------------------------------------------------------------

\* The step in which the authentication logic of make_api_request fails.
AuthFails == pc = "auth" /\ ~authed_session'

\* C22: when the credentials of the audit's auth method cannot be resolved
\* (the key is not configured, the GCP credentials do not load, the method is
\* unknown), the call ends without a request and without a retry, and the run
\* is recorded as a Failed Audit row of that audit carrying the error text.
C22_MissingCredentialsFail ==
    [][AuthFails =>
        /\ requests' = 0
        /\ totalRequests' = totalRequests
        /\ pc' = "idle"
        /\ sleeps' = sleeps
        /\ Len(audits') = Len(audits) + 1
        /\ audits'[Len(audits')].status = "Failed"
        /\ audits'[Len(audits')].audit_name = Head(job)
        /\ \E auth \in AuthOutcomes \ {"ok"} :
              audits'[Len(audits')].results.error = AuthErrorTexts[auth]]_vars

\* A run that made no request is recorded as Failed for the missing API key.
C22_Witness ==
    /\ pc = "idle"
    /\ fn = "make_api_request"
    /\ totalRequests = 0
    /\ audits # <<>>
    /\ audits[Len(audits)].status = "Failed"
    /\ audits[Len(audits)].results.error = AuthErrorTexts["key_missing"]

\* C24 as stated: the result of a fetch follows the configured shape (with a
\* results key the items of all pages under that key; without one the body of
\* the only page, else the pages in the "results" envelope) and loses the
\* data of no page it fetched: it holds as many items as the pages served.
C24_Original ==
    ( /\ fn = "make_api_request"
      /\ pc \in {"idle", "sleep"}
      /\ lastF.kind = "returned"
      /\ ~lastF.has_error )
    => /\ lastF.shape \in (IF cfg.results_key THEN {"aggregate", "page", "text"}
                                              ELSE {"page", "item", "envelope", "text"})
       /\ Len(lastF.items) = served

\* No item occurs twice in a sequence of items.
EachOnce(items) == \A j, k \in DOMAIN items : items[j] = items[k] => j = k

\* C29: every attempt of make_api_request, also the one after a 429 in the
\* middle of a paginated fetch, starts at the first page with an empty
\* accumulator and no page token; the aggregate an attempt returns holds the
\* items served in that attempt, each once, and nothing of an attempt before.
C29_RetryRestartsFetch ==
    fn = "make_api_request" =>
        /\ (pc = "request" /\ requests = 0) =>
              /\ all_results = <<>>
              /\ ~next_page_token
              /\ page_count = 1
              /\ served = 0
        /\ (pc \in {"idle", "sleep"} /\ attempts > 0 /\ lastF.shape = "aggregate") =>
              /\ EachOnce(lastF.items)
              /\ Len(lastF.items) = served
              /\ \A k \in DOMAIN lastF.items : lastF.items[k][1] \in 1..requests

\* A fetch whose first attempt was ended by a 429 on its second request has
\* returned, from its second attempt, the items of the two pages it fetched.
C29_Witness ==
    /\ fn = "make_api_request"
    /\ pc = "idle"
    /\ x = 1
    /\ requests = 2
    /\ totalRequests = 4
    /\ observed.shape = "aggregate"
    /\ observed.items = <<<<1, 1>>, <<2, 1>>>>

\* ------------------------------------------------------------------------
\* Claims about the due test of schedule_ticker
\* ------------------------------------------------------------------------

\* The most recent occurrence of cron at or before t.
OccurrenceAtOrBefore(cron, t) == get_prev(cron, t + 1)

\* C23 as stated: a tick at time t dispatches a schedule that has a watermark
\* if and only if it is enabled and its most recent cron occurrence at or
\* before t is later than the watermark; the watermark of a dispatched
\* schedule becomes t, that of any other schedule stays as it is.
C23_Original ==
    [][IsTick => \A id \in ScheduleIds :
        ( /\ schedules[id].last_run_at # NoRun
          /\ ~croniter_raises(schedules[id].cron_schedule) )
        => LET due == /\ schedules[id].is_enabled = 1
                      /\ OccurrenceAtOrBefore(schedules[id].cron_schedule, now')
                            > fromisoformat(schedules[id].last_run_at)
           IN  /\ id \in TickerJobs(enqueued') <=> due
               /\ schedules'[id].last_run_at =
                    IF due THEN isoformat(now') ELSE schedules[id].last_run_at]_vars

\* ------------------------------------------------------------------------
\* Claims about the requests of generate_gemini_summary
\* ------------------------------------------------------------------------

\* The call was ended by a request or a prompt that raised: count_tokens,
\* generate_content once its retries were used up, or _build_full_prompt.
EndedByRaise(c) ==
    /\ c.result.kind = "dict"
    /\ \E e \in {<<"count_tokens failed">>, <<"generate_content failed">>,
                 <<"list index out of range">>} : Contains(c.result.text, e)

\* C25 as stated: a call of generate_gemini_summary on data makes one
\* generation request when the estimate is below max_tokens_per_chunk;
\* otherwise one request per chunk in chunk order and then exactly one reduce
\* request, begun after every chunk was answered, with a progress update
\* before each request. Calls ended by a request that raised are set aside.
C25_Original ==
    /\ call.pc = "single" =>
        call.chunks = <<>> /\ call.generate_content = 0 /\ call.update_state = 1
    /\ call.pc = "map" =>
        /\ call.generate_content = call.i - 1
        /\ Len(call.partial_summaries) = call.i - 1
        /\ call.update_state = call.i
    /\ call.pc = "reduce" =>
        /\ call.generate_content = Len(call.chunks)
        /\ Len(call.partial_summaries) = Len(call.chunks)
        /\ call.update_state = Len(call.chunks) + 1
    /\ (call.pc = "returned" /\ ~NoDataToProcess(call.data) /\ ~EndedByRaise(call)) =>
        /\ call.generate_content = Len(call.chunks) + 1
        /\ call.update_state = Len(call.chunks) + 1

\* ------------------------------------------------------------------------
\* Claims about concurrent purges
\* ------------------------------------------------------------------------

\* C26 as stated: the step that ends an instance of purge_audits_task has
\* deleted exactly the Audit rows below its cutoff (of its name, if it has
\* one), has changed no schedule and no report, and the count the instance
\* reports is the number of rows it deleted, whatever runs beside it.
C26_Original ==
    [][\A i \in PurgeInstances :
        (purges[i].pc # "done" /\ purges'[i].pc = "done") =>
            /\ auditTable' = auditTable \
                    PurgeQuery(auditTable, purges'[i].cutoff, purges'[i].name)
            /\ purges'[i].count_to_delete
                    = Cardinality(auditTable) - Cardinality(auditTable')
            /\ schedules' = schedules
            /\ reports' = reports]_vars

\* ------------------------------------------------------------------------
\* Claims about the Report rows
\* ------------------------------------------------------------------------

\* The step ends the report task with a report, or without one.
TaskSucceeds == task.status # "SUCCESS" /\ task'.status = "SUCCESS"

TaskFails ==
    /\ task.status \notin {"An error occurred", "FAILURE"}
    /\ task'.status \in {"An error occurred", "FAILURE"}

IsRename ==
    \E report_id \in DOMAIN reports, new_name \in NewNames :
        rename_report(report_id, new_name)

\* The rows written so far stay, with their content.
ContentKept ==
    \A r \in DOMAIN reports :
        /\ r \in DOMAIN reports'
        /\ reports'[r].report_content = reports[r].report_content
        /\ reports'[r].by = reports[r].by

\* C27 as stated: a report task that succeeds inserts exactly one Report row,
\* one that fails inserts none, and neither the content nor the name of a
\* row changes after it was written.
C27_Original ==
    [][/\ TaskSucceeds => /\ Len(reports') = Len(reports) + 1
                          /\ reports'[Len(reports')].by = task'.name
       /\ TaskFails => reports' = reports
       /\ ContentKept
       /\ \A r \in DOMAIN reports :
            reports'[r].report_name = reports[r].report_name]_vars

\* C27 as amended: a report task that succeeds inserts exactly one Report row,
\* one that fails inserts none, no step changes the content of a row that was
\* written, and only rename_report changes its name.
C27_Amended ==
    [][/\ TaskSucceeds => /\ Len(reports') = Len(reports) + 1
                          /\ reports'[Len(reports')].by = task'.name
       /\ TaskFails => reports' = reports
       /\ ~(TaskSucceeds \/ TaskFails) => Len(reports') = Len(reports)
       /\ ContentKept
       /\ \A r \in DOMAIN reports :
            reports'[r].report_name # reports[r].report_name => IsRename]_vars

\* The report of a finished report task was renamed and still holds the
\* sections the task wrote.
C27_Witness ==
    /\ task.name = "generate_report_task"
    /\ task.status = "SUCCESS"
    /\ Len(reports) = 1
    /\ reports[1].report_name \in NewNames
    /\ reports[1].report_content = task.report_content
    /\ reports[1].report_content # <<>>

\* ------------------------------------------------------------------------
\* Claims about the ticker under Celery beat
\* ------------------------------------------------------------------------

\* occ is an occurrence of cron.
IsOccurrence(cron, occ) == ~croniter_raises(cron) /\ occ % cron.period = cron.phase

\* The schedule was dispatched at or after occ: its watermark says so.
DispatchedSince(id, occ) ==
    /\ schedules[id].last_run_at # NoRun
    /\ fromisoformat(schedules[id].last_run_at) >= occ

\* C30 as stated: with ticks that keep coming less than the catch-up window
\* apart, an enabled schedule one of whose cron occurrences has elapsed is
\* eventually dispatched for it, whatever the other schedules are.
C30_Original ==
    \A id \in ScheduleIds, occ \in Instants :
        ( /\ schedules[id].is_enabled = 1
          /\ IsOccurrence(schedules[id].cron_schedule, occ)
          /\ now > occ )
        ~> DispatchedSince(id, occ)
====
